---- MODULE Spec2Model ----
(***************************************************************************)
(* State-machine model of src/src/core/gif.py: from_video and its helper   *)
(* _get_video_metadata_ffprobe.  One call of from_video is a sequence of   *)
(* steps, one per interaction with a collaborator (tempfile, the file      *)
(* system, imageio's immeta / imiter / imopen, PIL, ffprobe); the steps of *)
(* different calls interleave.                                             *)
(*                                                                         *)
(* Numbers: Python floats that the code computes are modelled as exact     *)
(* rationals [n, d] with d > 0.  resize factors (0.25, 0.5, 0.75, 1.0) and *)
(* speed factors (0.5, 1, 2, 4) are dyadic, so every product the code      *)
(* truncates with int() is decided the same way in floats and in           *)
(* rationals for the source rates drawn here.                              *)
(***************************************************************************)
EXTENDS Integers, Sequences, FiniteSets, TLC

\* ---------------------------------------------------------------- bounds
\* Longest video (in frames) of the exhaustive specification.
MaxShortLen == 3

\* ------------------------------------------------------ program constants
MinFps == 3
MaxFps == 10
MinQuality == 0
MaxQuality == 100
FrameLimit == 1000
DefaultFps == 30

\* ------------------------------------------------------------- Optional
None == << >>
Some(x) == << x >>
IsNone(o) == Len(o) = 0
Get(o) == o[1]

\* ------------------------------------------------------------ rationals
Rat(n, d) == [n |-> n, d |-> d]
RatMul(a, b) == Rat(a.n * b.n, a.d * b.d)
RatDivInt(a, k) == Rat(a.n, a.d * k)
\* Python's int(x) on a finite float: truncation toward zero.
AltPyIntRound(r) ==
    (2 * r.n + r.d) \div (2 * r.d)
PyInt(r) ==
    IF r.n >= 0 THEN r.n \div r.d ELSE -((-r.n) \div r.d)

\* ------------------------------------------------- option normalisation
ResizeValues == {"25%", "50%", "75%", "100%"}
SpeedValues == {"0.5x", "1x", "2x", "4x"}
LoopValues == {"forever", "once", "none"}

\* int(resize.rstrip("%")): the percentage; resize_factor is pct / 100.
ParseResize(resize) ==
    CASE resize = "25%" -> 25
      [] resize = "50%" -> 50
      [] resize = "75%" -> 75
      [] resize = "100%" -> 100

\* float(speed.rstrip("x"))
ParseSpeed(speed) ==
    CASE speed = "0.5x" -> Rat(1, 2)
      [] speed = "1x" -> Rat(1, 1)
      [] speed = "2x" -> Rat(2, 1)
      [] speed = "4x" -> Rat(4, 1)

AltLoopCountNoSentinel(loop) ==
    CASE loop = "forever" -> 0
      [] loop = "once" -> 1
      [] loop = "none" -> 0
LoopCount(loop) ==
    CASE loop = "forever" -> 0
      [] loop = "once" -> 1
      [] loop = "none" -> -1

\* ----------------------------------------------------------- validation
AltFpsValidStrict(fps) ==
    MinFps < fps /\ fps <= MaxFps
FpsValid(fps) ==
    MinFps <= fps /\ fps <= MaxFps

QualityValid(quality) ==
    MinQuality <= quality /\ quality <= MaxQuality

\* ------------------------------------------------------- frame sampling
AltFrameStepRounded(video_fps, fps, speed_factor) ==
    LET raw == AltPyIntRound(RatMul(RatDivInt(video_fps, fps), speed_factor))
    IN  IF raw < 1 THEN 1 ELSE raw
\* frame_step = int((video_fps / fps) * speed_factor), at least 1
FrameStepOf(video_fps, fps, speed_factor) ==
    LET raw == PyInt(RatMul(RatDivInt(video_fps, fps), speed_factor))
    IN  IF raw < 1 THEN 1 ELSE raw

AltKeepFrameOffByOne(frame_index, frame_step) ==
    (frame_index + 1) % frame_step = 0
AltKeepFrameSkipsFirst(frame_index, frame_step) ==
    frame_index > 0 /\ frame_index % frame_step = 0
KeepFrame(frame_index, frame_step) ==
    frame_index % frame_step = 0

AltLimitReachedAt(frame_index) ==
    frame_index >= FrameLimit
\* tested after frame_index has been incremented
LimitReached(frame_index) ==
    frame_index > FrameLimit

\* --------------------------------------------------------------- encode
AltDurationMsCeil(fps) ==
    (1000 + fps - 1) \div fps
\* duration_ms = int(1000 / fps)
DurationMs(fps) ==
    PyInt(Rat(1000, fps))

AltLoopArgRaw(loop_count) ==
    Some(loop_count)
\* loop=loop_count if loop_count >= 0 else None
LoopArg(loop_count) ==
    IF loop_count >= 0 THEN Some(loop_count) ELSE None

\* ------------------------------------------------------------- metadata
\* A width or height as a metadata source reports it: a number, float('inf'),
\* float('nan'), None, or a value of a non-numeric type.
Num(v) == [t |-> "num", v |-> v]
InfDim == [t |-> "inf", v |-> 0]
NanDim == [t |-> "nan", v |-> 0]
NoneDim == [t |-> "none", v |-> 0]
StrDim == [t |-> "str", v |-> 0]

\* The dict iio.immeta returns: each key present (Some) or absent (None).
MetaDict(shape, size, fps, framerate) ==
    [shape |-> shape, size |-> size, fps |-> fps, framerate |-> framerate]

\* What immeta may report for a video v (true size v.w x v.h, rate v.fps).
MetaDicts(v) ==
    { MetaDict(Some(<<Num(v.h), Num(v.w), Num(3)>>), None, Some(v.fps), None),
      MetaDict(Some(<<Num(v.h), Num(v.w), Num(3)>>), None, None, None),
      MetaDict(None, Some(<<Num(v.w), Num(v.h)>>), None, Some(v.fps)),
      MetaDict(Some(<<Num(v.h)>>), Some(<<Num(v.w), Num(v.h)>>), Some(v.fps), None),
      MetaDict(None, None, Some(v.fps), None),
      MetaDict(Some(<<NoneDim, Num(v.w)>>), None, Some(v.fps), None),
      MetaDict(Some(<<Num(0), Num(v.w), Num(3)>>), None, Some(v.fps), None),
      MetaDict(Some(<<Num(v.h), Num(-1), Num(3)>>), None, Some(v.fps), None),
      MetaDict(None, Some(<<InfDim, InfDim>>), Some(v.fps), None),
      MetaDict(Some(<<Num(v.h), NanDim, Num(3)>>), None, Some(v.fps), None),
      MetaDict(Some(<<StrDim, StrDim>>), None, Some(v.fps), None) }

\* original_height, original_width = meta['shape'][:2], else
\* original_width, original_height = meta['size'][:2], else None, None
MetaDims(meta) ==
    IF ~IsNone(meta.shape) /\ Len(Get(meta.shape)) >= 2
    THEN [w |-> Get(meta.shape)[2], h |-> Get(meta.shape)[1]]
    ELSE IF ~IsNone(meta.size) /\ Len(Get(meta.size)) >= 2
    THEN [w |-> Get(meta.size)[1], h |-> Get(meta.size)[2]]
    ELSE [w |-> NoneDim, h |-> NoneDim]

\* video_fps = meta['fps'], else meta['framerate'], else 30.0
MetaFps(meta) ==
    IF ~IsNone(meta.fps) THEN Get(meta.fps)
    ELSE IF ~IsNone(meta.framerate) THEN Get(meta.framerate)
    ELSE Rat(DefaultFps, 1)

\* original_width is None or original_height is None
DimsMissing(w, h) ==
    w.t = "none" \/ h.t = "none"

\* isinstance(original_width, (int, float)) and isinstance(original_height, ...)
DimsNumeric(w, h) ==
    w.t \in {"num", "inf", "nan"} /\ h.t \in {"num", "inf", "nan"}

\* == float('inf') or <= 0, for values that passed DimsNumeric; every
\* comparison with nan is False
DimsInvalid(w, h) ==
    \/ w.t = "inf" \/ h.t = "inf"
    \/ (w.t = "num" /\ w.v <= 0) \/ (h.t = "num" /\ h.v <= 0)

\* -------------------------------------------------------------- ffprobe
\* r_frame_rate as ffprobe prints it: "num/den" or a plain decimal whose
\* value is num/den.
RateStr(form, num, den) == [form |-> form, num |-> num, den |-> den]

\* streams[0] of the JSON: each key present or absent.
Stream(width, height, rate) ==
    [width |-> width, height |-> height, r_frame_rate |-> rate]

\* One run of the ffprobe subprocess.
ProbeRun(kind, stream) == [kind |-> kind, stream |-> stream]
NoStream == Stream(None, None, None)

ProbeRuns(v) ==
    { ProbeRun("ok", Stream(Some(v.w), Some(v.h), Some(RateStr("rational", v.fps.n, v.fps.d)))),
      ProbeRun("ok", Stream(Some(v.w), Some(v.h), Some(RateStr("rational", v.fps.n, 0)))),
      ProbeRun("ok", Stream(Some(v.w), Some(v.h), Some(RateStr("decimal", v.fps.n, v.fps.d)))),
      ProbeRun("ok", Stream(Some(v.w), Some(v.h), None)),
      ProbeRun("ok", Stream(None, Some(v.h), None)),
      ProbeRun("ok", Stream(Some(v.w), Some(0), None)),
      ProbeRun("ok", Stream(Some(-1), Some(v.h), None)),
      ProbeRun("notinstalled", NoStream),
      ProbeRun("filenotfound", NoStream),
      ProbeRun("timeout", NoStream),
      ProbeRun("nonzero", NoStream),
      ProbeRun("badjson", NoStream),
      ProbeRun("nostreams", NoStream),
      ProbeRun("oserror", NoStream) }

AltParseRateNumerator(rate) ==
    IF IsNone(rate) THEN Rat(DefaultFps, 1) ELSE Rat(Get(rate).num, 1)
\* fps = 30.0; "num/den" -> num/den unless int(den) == 0; else float(rate_str)
ParseRate(rate) ==
    IF IsNone(rate) THEN Rat(DefaultFps, 1)
    ELSE IF Get(rate).form = "rational"
    THEN IF Get(rate).den # 0 THEN Rat(Get(rate).num, Get(rate).den)
         ELSE Rat(DefaultFps, 1)
    ELSE Rat(Get(rate).num, Get(rate).den)

\* not width or not height, or width <= 0 or height <= 0
StreamDimsBad(stream) ==
    \/ IsNone(stream.width) \/ IsNone(stream.height)
    \/ Get(stream.width) = 0 \/ Get(stream.height) = 0
    \/ Get(stream.width) <= 0 \/ Get(stream.height) <= 0

Exc(type, msg) == [type |-> type, msg |-> msg]
ParseFailed == "Failed to parse ffprobe output: "

\* The message of the first exception raised inside the probe for a run.
ProbeCause(run) ==
    CASE run.kind = "timeout" -> <<"TimeoutExpired: Command timed out after 30 seconds">>
      [] run.kind = "notinstalled" -> <<"[Errno 2] No such file or directory: 'ffprobe'">>
      [] run.kind = "filenotfound" -> <<"[Errno 2] No such file or directory">>
      [] run.kind = "oserror" -> <<"[Errno 13] Permission denied">>
      [] run.kind = "nonzero" -> <<"ffprobe failed with error: ", "<stderr>">>
      [] run.kind = "badjson" -> <<"JSONDecodeError: Expecting value">>
      [] run.kind = "nostreams" -> <<"No video streams found by ffprobe">>
      [] OTHER -> <<"Invalid dimensions from ffprobe: ", "<width>x<height>">>

ProbeFailure(exc, cause) ==
    [ok |-> FALSE, w |-> 0, h |-> 0, fps |-> Rat(DefaultFps, 1), exc |-> exc, cause |-> cause]

AltProbeDefaultsOnFailure(run) ==
    [ok |-> TRUE, w |-> 640, h |-> 480, fps |-> Rat(DefaultFps, 1),
     exc |-> Exc("none", <<>>), cause |-> <<>>]
\* _get_video_metadata_ffprobe: (width, height, fps) or the exception that
\* leaves it.
FfprobeMetadata(run) ==
    CASE run.kind = "timeout" ->
           ProbeFailure(Exc("ValueError", <<"ffprobe command timed out">>), ProbeCause(run))
      [] run.kind = "notinstalled" ->
           ProbeFailure(Exc("ValueError", <<"ffprobe not found. Please install ffmpeg.">>),
                        ProbeCause(run))
      [] run.kind = "filenotfound" ->
           ProbeFailure(Exc("ValueError", <<"Video file not found: ", "<video_path>">>),
                        ProbeCause(run))
      [] run.kind = "oserror" ->
           ProbeFailure(Exc("OSError", ProbeCause(run)), ProbeCause(run))
      [] run.kind \in {"nonzero", "badjson", "nostreams"} ->
           ProbeFailure(Exc("ValueError", <<ParseFailed>> \o ProbeCause(run)), ProbeCause(run))
      [] OTHER ->
           IF StreamDimsBad(run.stream)
           THEN ProbeFailure(Exc("ValueError", <<ParseFailed>> \o ProbeCause(run)),
                             ProbeCause(run))
           ELSE [ok |-> TRUE, w |-> Get(run.stream.width), h |-> Get(run.stream.height),
                 fps |-> ParseRate(run.stream.r_frame_rate),
                 exc |-> Exc("none", <<>>), cause |-> <<>>]

\* ---------------------------------------------------------- target size
\* new_width = original_width * resize_factor, as an exact rational
Scaled(v, pct) == Rat(v * pct, 100)

\* not (0 < new_width < inf) or not (0 < new_height < inf), for numeric
\* dimensions w, h scaled by pct / 100
ResizeInvalid(w, h, pct) ==
    \/ w.t \in {"inf", "nan"} \/ h.t \in {"inf", "nan"}
    \/ ~(0 < Scaled(w.v, pct).n) \/ ~(0 < Scaled(h.v, pct).n)

AltTargetSizeRounded(v, pct) ==
    AltPyIntRound(Scaled(v, pct))
\* width = int(new_width)
TargetSize(v, pct) ==
    PyInt(Scaled(v, pct))

\* ---------------------------------------------------------------- state
Calls == {1, 2}
Names == {"tmpA", "tmpB"}
Paths == Names \X {".mp4", ".gif"}

\* call[c]: the locals of call c of from_video and where it stands (pc).
\* fs: the scratch directory, one entry per path.
\* namePool: the names tempfile.mktemp draws from.
\* faults: whether the collaborators (file system, imageio, PIL, ffprobe)
\* may fail or misreport in this run.
\* clip: the locals of the call of clip_video and where it stands.
\* http: the request an endpoint of routes/video.py is serving.
\* ext: the call of extract_video_url.
\* ffprobe: a call of _get_video_metadata_ffprobe on its own.
\* client: the request a VideoServicesClient method has issued.
VARIABLES call, fs, namePool, faults, clip, http, ext, ffprobe, client

vars == <<call, fs, namePool, faults, clip, http, ext, ffprobe, client>>

Video(w, h, fps, len) == [w |-> w, h |-> h, fps |-> fps, len |-> len]
Args(fps, quality, resize, speed, loop) ==
    [fps |-> fps, quality |-> quality, resize |-> resize, speed |-> speed, loop |-> loop]

IdleArgs == Args(8, 75, "100%", "1x", "forever")
IdleVideo == Video(720, 480, Rat(30, 1), 0)

\* No call of the probe on its own, and no client request, under way.
ProbeIdle == [pc |-> "off", run |-> ProbeRun("nostreams", NoStream), result |-> None]
ClientIdle ==
    [pc |-> "off", method |-> "health_check", verb |-> "GET", path |-> <<"health">>,
     url_ok |-> TRUE, start_time |-> 0, end_time |-> 1, args |-> IdleArgs,
     source |-> None, upload |-> None, status |-> 0]

NoFile == [exists |-> FALSE, video |-> None, frames |-> <<>>, closed |-> FALSE]

FpsMessage == "FPS must be between 3 and 10"
QualityMessage == "Quality must be between 0 and 100"
ConvertFailed == "Failed to convert video to GIF: "
FramesFailed == "Failed to process video frames: "
MetadataFailed == "Unable to read video metadata: "

\* The locals of a call that has not run yet.  debug is what
\* os.getenv("DEBUG") answers during the call, diag the lines of the source
\* whose print has run.  primary and probe record what
\* the two metadata sources answered: primary is "raised", "valid",
\* "missing", "invalid", "nan" or "nonnumeric"; probe is the kind of the last
\* ffprobe run.
InitLocals(args, video, pc) ==
    [pc |-> pc, args |-> args, video_bytes |-> video,
     resize_pct |-> 0, speed_factor |-> Rat(0, 1), loop_count |-> 0,
     temp_video_path |-> None, temp_gif_path |-> None,
     meta |-> None, meta_error |-> None,
     original_width |-> NoneDim, original_height |-> NoneDim,
     video_fps |-> Rat(DefaultFps, 1),
     width |-> 0, height |-> 0, frame_step |-> 0,
     frames |-> <<>>, frame_index |-> 0,
     writer |-> "none", duration_ms |-> 0, nwritten |-> 0,
     gif_bytes |-> None, exc |-> None, pending |-> "none",
     result |-> None, raised |-> None,
     cause |-> None, primary |-> "none", probe |-> "none", log |-> <<>>,
     debug |-> FALSE, diag |-> <<>>]

\* raise inside the try block: control goes to the except clause at the end.
\* cause keeps the message of the exception the call first let propagate.
Raised(l, type, msg, origin) ==
    [l EXCEPT !.pc = "except", !.exc = Some(Exc(type, msg)),
              !.cause = IF IsNone(@) THEN Some(origin) ELSE @]

Logged(l, event) == [l EXCEPT !.log = Append(@, event)]

AltDiagnosedSkipsFrame(l, line) ==
    IF l.debug THEN [l EXCEPT !.diag = Append(@, line), !.frame_index = @ + 1] ELSE l
\* if os.getenv("DEBUG"): print(...), at the given line of gif.py
Diagnosed(l, line) ==
    IF l.debug THEN [l EXCEPT !.diag = Append(@, line)] ELSE l

\* The video a reader of path p finds there (None: no readable video).
VideoAt(p) == IF fs[p].exists THEN fs[p].video ELSE None

\* ------------------------------------------------------------ from_video
\* Option validation and normalisation.
Validate(c) ==
    LET l == call[c] IN
    /\ l.pc = "start"
    /\ call' = [call EXCEPT ![c] =
         IF ~FpsValid(l.args.fps)
         THEN [l EXCEPT !.pc = "done", !.raised = Some(Exc("ValueError", <<FpsMessage>>))]
         ELSE IF ~QualityValid(l.args.quality)
         THEN [l EXCEPT !.pc = "done", !.raised = Some(Exc("ValueError", <<QualityMessage>>))]
         ELSE [l EXCEPT !.pc = "mktemp_video",
                        !.resize_pct = ParseResize(l.args.resize),
                        !.speed_factor = ParseSpeed(l.args.speed),
                        !.loop_count = LoopCount(l.args.loop)]]
    /\ UNCHANGED <<fs, namePool, faults, clip, http, ext, ffprobe, client>>

\* What tempfile.mktemp raises when gettempdir() finds no directory it can
\* write to.
NoTempDir == Exc("FileNotFoundError", <<"[Errno 2] No usable temporary directory found">>)

\* temp_video_path = tempfile.mktemp(suffix=".mp4"): a name that does not
\* exist now; nothing is created.  The statement stands before the try
\* block: what it raises leaves from_video as it is.
MkTempVideo(c) ==
    LET l == call[c] IN
    /\ l.pc = "mktemp_video"
    /\ \/ \E n \in namePool :
            /\ ~fs[<<n, ".mp4">>].exists
            /\ call' = [call EXCEPT ![c] =
                 Logged([l EXCEPT !.pc = "mktemp_gif",
                                  !.temp_video_path = Some(<<n, ".mp4">>)], "mktemp")]
       \/ /\ namePool = {}
          /\ call' = [call EXCEPT ![c] = [l EXCEPT !.pc = "done", !.raised = Some(NoTempDir)]]
    /\ UNCHANGED <<fs, namePool, faults, clip, http, ext, ffprobe, client>>

\* temp_gif_path = tempfile.mktemp(suffix=".gif")
MkTempGif(c) ==
    LET l == call[c] IN
    /\ l.pc = "mktemp_gif"
    /\ \E n \in namePool :
         /\ ~fs[<<n, ".gif">>].exists
         /\ call' = [call EXCEPT ![c] =
              Logged([l EXCEPT !.pc = "write_video",
                               !.temp_gif_path = Some(<<n, ".gif">>)], "mktemp")]
    /\ UNCHANGED <<fs, namePool, faults, clip, http, ext, ffprobe, client>>

\* with open(temp_video_path, "wb") as f: f.write(video_bytes)
WriteScratch(c) ==
    LET l == call[c]
        p == Get(l.temp_video_path)
        err == <<"OSError: cannot write scratch video">>
    IN
    /\ l.pc = "write_video"
    /\ \/ /\ fs' = [fs EXCEPT ![p] = [exists |-> TRUE, video |-> Some(l.video_bytes),
                                      frames |-> <<>>, closed |-> TRUE]]
          /\ call' = [call EXCEPT ![c] = Logged([l EXCEPT !.pc = "immeta"], "open_wb")]
       \/ \* open() fails: nothing is created
          /\ faults
          /\ fs' = fs
          /\ call' = [call EXCEPT ![c] = Logged(Raised(l, "OSError", err, err), "open_wb")]
       \/ \* write() fails: the file exists, truncated
          /\ faults
          /\ fs' = [fs EXCEPT ![p] = [exists |-> TRUE, video |-> None,
                                      frames |-> <<>>, closed |-> TRUE]]
          /\ call' = [call EXCEPT ![c] = Logged(Raised(l, "OSError", err, err), "open_wb")]
    /\ UNCHANGED <<namePool, faults, clip, http, ext, ffprobe, client>>

AltCheckDimsAlwaysProbes(l) ==
    IF ~DimsNumeric(l.original_width, l.original_height)
    THEN Raised(l, "ValueError", <<"Invalid dimension types">>, <<"Invalid dimension types">>)
    ELSE Diagnosed([l EXCEPT !.pc = "probe_invalid"], 111)
\* "Validate dimensions": where control goes with the dimensions in l.
CheckDims(l) ==
    IF ~DimsNumeric(l.original_width, l.original_height)
    THEN Raised(l, "ValueError", <<"Invalid dimension types">>, <<"Invalid dimension types">>)
    ELSE IF DimsInvalid(l.original_width, l.original_height)
    THEN Diagnosed([l EXCEPT !.pc = "probe_invalid"], 111)
    ELSE [l EXCEPT !.pc = "compute_size"]

PrimaryStatus(w, h) ==
    IF DimsMissing(w, h) THEN "missing"
    ELSE IF ~DimsNumeric(w, h) THEN "nonnumeric"
    ELSE IF DimsInvalid(w, h) THEN "invalid"
    ELSE IF w.t = "nan" \/ h.t = "nan" THEN "nan"
    ELSE "valid"

\* "Extract dimensions and fps from metadata", then the check for missing
\* dimensions and "Validate dimensions", up to the next ffprobe call.
ExtractDims(l, meta) ==
    LET d == MetaDims(meta)
        l1 == Diagnosed(
                [l EXCEPT !.meta = Some(meta),
                          !.original_width = d.w, !.original_height = d.h,
                          !.video_fps = MetaFps(meta),
                          !.primary = IF @ = "none" THEN PrimaryStatus(d.w, d.h) ELSE @],
                96)
    IN  IF DimsMissing(d.w, d.h) THEN Diagnosed([l1 EXCEPT !.pc = "probe_missing"], 102)
        ELSE CheckDims(l1)

\* meta = iio.immeta(temp_video_path, extension=".mp4")
ReadMeta(c) ==
    LET l == call[c]
        v == VideoAt(Get(l.temp_video_path))
        err == <<"immeta: cannot read metadata">>
    IN
    /\ l.pc = "immeta"
    /\ \/ /\ ~IsNone(v)
          /\ \E m \in MetaDicts(Get(v)) :
               /\ faults \/ m = MetaDict(Some(<<Num(Get(v).h), Num(Get(v).w), Num(3)>>),
                                         None, Some(Get(v).fps), None)
               /\ call' = [call EXCEPT ![c] =
                    ExtractDims(Diagnosed(Logged(l, "immeta"), 69), m)]
       \/ /\ faults \/ IsNone(v)
          /\ call' = [call EXCEPT ![c] =
               Diagnosed(Logged([l EXCEPT !.pc = "meta_fallback", !.meta_error = Some(err),
                                          !.primary = "raised"], "immeta"), 72)]
    /\ UNCHANGED <<fs, namePool, faults, clip, http, ext, ffprobe, client>>

\* The runs of ffprobe possible on path p.
ProbeRunsAt(p) ==
    IF IsNone(VideoAt(p)) THEN {ProbeRun("nonzero", NoStream)}
    ELSE ProbeRuns(Get(VideoAt(p)))

ProbeKind(run) ==
    IF run.kind = "ok" /\ StreamDimsBad(run.stream) THEN "baddims" ELSE run.kind

\* except Exception as meta_error: the ffprobe fallback; any failure of it
\* raises ValueError("Unable to read video metadata: {meta_error}")
MetaFallback(c) ==
    LET l == call[c] IN
    /\ l.pc = "meta_fallback"
    /\ \E run \in ProbeRunsAt(Get(l.temp_video_path)) :
         LET r == FfprobeMetadata(run)
             l1 == Diagnosed(Logged([l EXCEPT !.probe = ProbeKind(run)], "ffprobe"), 231)
         IN  call' = [call EXCEPT ![c] =
               IF r.ok
               THEN ExtractDims(Diagnosed(l1, 274), MetaDict(Some(<<Num(r.h), Num(r.w)>>), None,
                                             Some(r.fps), None))
               ELSE Raised(l1, "ValueError", <<MetadataFailed>> \o Get(l.meta_error),
                           Get(l.meta_error))]
    /\ UNCHANGED <<fs, namePool, faults, clip, http, ext, ffprobe, client>>

\* original_width, original_height, video_fps = _get_video_metadata_ffprobe(...)
Probed(l, run) ==
    LET r == FfprobeMetadata(run)
        l1 == Diagnosed(Logged([l EXCEPT !.probe = ProbeKind(run)], "ffprobe"), 231)
    IN  IF r.ok
        THEN [Diagnosed(l1, 274) EXCEPT !.original_width = Num(r.w), !.original_height = Num(r.h),
                        !.video_fps = r.fps]
        ELSE Raised(l1, r.exc.type, r.exc.msg, r.cause)

\* the fallback for dimensions not found in the metadata
ProbeMissing(c) ==
    LET l == call[c] IN
    /\ l.pc = "probe_missing"
    /\ \E run \in ProbeRunsAt(Get(l.temp_video_path)) :
         LET l1 == Probed(l, run)
         IN  call' = [call EXCEPT ![c] = IF l1.pc = "except" THEN l1 ELSE CheckDims(l1)]
    /\ UNCHANGED <<fs, namePool, faults, clip, http, ext, ffprobe, client>>

\* the fallback for infinite, zero or negative dimensions
ProbeInvalid(c) ==
    LET l == call[c] IN
    /\ l.pc = "probe_invalid"
    /\ \E run \in ProbeRunsAt(Get(l.temp_video_path)) :
         LET l1 == Probed(l, run)
         IN  call' = [call EXCEPT ![c] =
               IF l1.pc = "except" THEN l1 ELSE [l1 EXCEPT !.pc = "compute_size"]]
    /\ UNCHANGED <<fs, namePool, faults, clip, http, ext, ffprobe, client>>

\* "Calculate new dimensions" and "Calculate frame sampling based on speed"
ComputeSize(c) ==
    LET l == call[c]
        w == l.original_width
        h == l.original_height
        width == TargetSize(w.v, l.resize_pct)
        height == TargetSize(h.v, l.resize_pct)
    IN
    /\ l.pc = "compute_size"
    /\ call' = [call EXCEPT ![c] =
         IF ResizeInvalid(w, h, l.resize_pct)
         THEN Raised(l, "ValueError", <<"Invalid resize calculation">>,
                     <<"Invalid resize calculation">>)
         ELSE IF width <= 0 \/ height <= 0
         THEN Raised([l EXCEPT !.width = width, !.height = height], "ValueError",
                     <<"Calculated dimensions too small">>,
                     <<"Calculated dimensions too small">>)
         ELSE Logged(Diagnosed(Diagnosed(Diagnosed(
                [l EXCEPT !.pc = "frames", !.width = width, !.height = height,
                          !.frame_step = FrameStepOf(l.video_fps, l.args.fps, l.speed_factor),
                          !.frames = <<>>, !.frame_index = 0], 129), 137), 144), "imiter")]
    /\ UNCHANGED <<fs, namePool, faults, clip, http, ext, ffprobe, client>>

\* A frame as the decoder yields it, and as PIL returns it after
\* img.resize((width, height), Image.Resampling.LANCZOS).
Frame(idx, w, h, via) == [idx |-> idx, w |-> w, h |-> h, via |-> via]

AltResizedStrided(frame, width, height, pct) ==
    Frame(frame.idx, frame.w \div (100 \div pct), frame.h \div (100 \div pct), "strided")
Resized(frame, width, height, pct) ==
    Frame(frame.idx, width, height, "lanczos")

\* One iteration of "for frame in iio.imiter(...)" in which the decoder
\* yields a frame.
DecodeFrame(c) ==
    LET l == call[c]
        v == VideoAt(Get(l.temp_video_path))
        frame == Frame(l.frame_index, Get(v).w, Get(v).h, "decoder")
        keep == KeepFrame(l.frame_index, l.frame_step)
        next_index == l.frame_index + 1
        after(frames) ==
            IF LimitReached(next_index)
            THEN Diagnosed([l EXCEPT !.frames = frames, !.frame_index = next_index,
                                     !.pc = "open_writer"], 164)
            ELSE [l EXCEPT !.frames = frames, !.frame_index = next_index]
        err == <<"PIL: cannot resize frame">>
    IN
    /\ l.pc = "frames"
    /\ ~IsNone(v)
    /\ l.frame_index < Get(v).len
    /\ \/ /\ keep /\ l.resize_pct # 100
          /\ \/ call' = [call EXCEPT ![c] =
                  after(Append(l.frames, Resized(frame, l.width, l.height, l.resize_pct)))]
             \/ /\ faults
                /\ call' = [call EXCEPT ![c] =
                     Raised(Diagnosed(l, 169), "ValueError", <<FramesFailed>> \o err, err)]
       \/ /\ keep /\ l.resize_pct = 100
          /\ call' = [call EXCEPT ![c] = after(Append(l.frames, frame))]
       \/ /\ ~keep
          /\ call' = [call EXCEPT ![c] = after(l.frames)]
    /\ UNCHANGED <<fs, namePool, faults, clip, http, ext, ffprobe, client>>

\* The decoder is exhausted: the for loop ends.
DecodeEnd(c) ==
    LET l == call[c]
        v == VideoAt(Get(l.temp_video_path))
    IN
    /\ l.pc = "frames"
    /\ ~IsNone(v)
    /\ l.frame_index >= Get(v).len
    /\ call' = [call EXCEPT ![c] = [l EXCEPT !.pc = "open_writer"]]
    /\ UNCHANGED <<fs, namePool, faults, clip, http, ext, ffprobe, client>>

\* The decoder raises: except Exception as frame_error
DecodeFail(c) ==
    LET l == call[c]
        err == <<"imiter: cannot decode frame">>
    IN
    /\ l.pc = "frames"
    /\ faults \/ IsNone(VideoAt(Get(l.temp_video_path)))
    /\ call' = [call EXCEPT ![c] =
         Raised(Diagnosed(l, 169), "ValueError", <<FramesFailed>> \o err, err)]
    /\ UNCHANGED <<fs, namePool, faults, clip, http, ext, ffprobe, client>>

\* "if not frames", duration_ms, writer = iio.imopen(temp_gif_path, "w", ...)
OpenWriter(c) ==
    LET l == call[c]
        p == Get(l.temp_gif_path)
        l1 == Logged([Diagnosed(Diagnosed(l, 176), 180)
                        EXCEPT !.duration_ms = DurationMs(l.args.fps)], "imopen_w")
        err == <<"imopen: cannot open GIF for writing">>
        empty == [exists |-> TRUE, video |-> None, frames |-> <<>>, closed |-> FALSE]
    IN
    /\ l.pc = "open_writer"
    /\ IF l.frames = <<>>
       THEN /\ call' = [call EXCEPT ![c] =
                 Raised(l, "ValueError", <<"No frames could be extracted from the video">>,
                        <<"No frames could be extracted from the video">>)]
            /\ fs' = fs
       ELSE \/ /\ call' = [call EXCEPT ![c] = [l1 EXCEPT !.pc = "write", !.writer = "open"]]
               /\ fs' = [fs EXCEPT ![p] = empty]
            \/ /\ faults
               /\ call' = [call EXCEPT ![c] = Raised(l1, "OSError", err, err)]
               /\ \/ fs' = fs
                  \/ fs' = [fs EXCEPT ![p] = empty]
    /\ UNCHANGED <<namePool, faults, clip, http, ext, ffprobe, client>>

\* What one writer.write(frame, duration=..., loop=...) hands the encoder.
Written(frame, duration, loop) == [frame |-> frame, duration |-> duration, loop |-> loop]

\* One iteration of "for frame in frames: writer.write(...)"
WriteFrame(c) ==
    LET l == call[c]
        p == Get(l.temp_gif_path)
        frame == l.frames[l.nwritten + 1]
        err == <<"writer: cannot write frame">>
    IN
    /\ l.pc = "write"
    /\ l.nwritten < Len(l.frames)
    /\ \/ /\ fs' = IF fs[p].exists
                   THEN [fs EXCEPT ![p].frames =
                           Append(@, Written(frame, l.duration_ms, LoopArg(l.loop_count)))]
                   ELSE fs
          /\ call' = [call EXCEPT ![c] = [l EXCEPT !.nwritten = @ + 1]]
       \/ /\ faults
          /\ fs' = fs
          /\ call' = [call EXCEPT ![c] = Raised(l, "OSError", err, err)]
    /\ UNCHANGED <<namePool, faults, clip, http, ext, ffprobe, client>>

\* writer.close()
CloseWriter(c) ==
    LET l == call[c]
        p == Get(l.temp_gif_path)
        err == <<"writer: cannot close">>
    IN
    /\ l.pc = "write"
    /\ l.nwritten = Len(l.frames)
    /\ \/ /\ fs' = IF fs[p].exists THEN [fs EXCEPT ![p].closed = TRUE] ELSE fs
          /\ call' = [call EXCEPT ![c] =
               Logged([l EXCEPT !.pc = "read", !.writer = "closed"], "close")]
       \/ /\ faults
          /\ fs' = fs
          /\ call' = [call EXCEPT ![c] = Logged(Raised(l, "OSError", err, err), "close")]
    /\ UNCHANGED <<namePool, faults, clip, http, ext, ffprobe, client>>

\* with open(temp_gif_path, "rb") as f: gif_bytes = f.read(); return gif_bytes
ReadGif(c) ==
    LET l == call[c]
        p == Get(l.temp_gif_path)
        err == <<"OSError: cannot read GIF">>
    IN
    /\ l.pc = "read"
    /\ \/ /\ fs[p].exists
          /\ call' = [call EXCEPT ![c] =
               Diagnosed(Logged([l EXCEPT !.pc = "cleanup_video", !.pending = "return",
                                          !.gif_bytes = Some([frames |-> fs[p].frames,
                                                              complete |-> fs[p].closed])],
                                "open_rb"), 202)]
       \/ /\ faults \/ ~fs[p].exists
          /\ call' = [call EXCEPT ![c] = Logged(Raised(l, "OSError", err, err), "open_rb")]
    /\ UNCHANGED <<fs, namePool, faults, clip, http, ext, ffprobe, client>>

AltWrappedBare(exc) ==
    Exc("ValueError", <<ConvertFailed>>)
\* raise ValueError(f"Failed to convert video to GIF: {str(e)}")
Wrapped(exc) ==
    Exc("ValueError", <<ConvertFailed>> \o exc.msg)

\* except Exception as e
Except(c) ==
    LET l == call[c] IN
    /\ l.pc = "except"
    /\ call' = [call EXCEPT ![c] =
         [l EXCEPT !.pc = "cleanup_video", !.pending = "raise",
                   !.exc = Some(Wrapped(Get(l.exc)))]]
    /\ UNCHANGED <<fs, namePool, faults, clip, http, ext, ffprobe, client>>

AltUnlinkedNever(file) ==
    file
AltUnlinkedTruncates(file) ==
    IF file.exists THEN [file EXCEPT !.video = None, !.frames = <<>>] ELSE file
\* if os.path.exists(path): os.unlink(path)
Unlinked(file) ==
    IF file.exists THEN NoFile ELSE file

\* finally: the first path, temp_video_path
CleanupVideo(c) ==
    LET l == call[c]
        p == Get(l.temp_video_path)
    IN
    /\ l.pc = "cleanup_video"
    /\ fs' = [fs EXCEPT ![p] = Unlinked(@)]
    /\ call' = [call EXCEPT ![c] = Logged([l EXCEPT !.pc = "cleanup_gif"], "unlink")]
    /\ UNCHANGED <<namePool, faults, clip, http, ext, ffprobe, client>>

\* finally: the second path, temp_gif_path; then the pending return or raise
CleanupGif(c) ==
    LET l == call[c]
        p == Get(l.temp_gif_path)
    IN
    /\ l.pc = "cleanup_gif"
    /\ fs' = [fs EXCEPT ![p] = Unlinked(@)]
    /\ call' = [call EXCEPT ![c] =
         Logged([l EXCEPT !.pc = "done",
                          !.result = IF l.pending = "return" THEN l.gif_bytes ELSE None,
                          !.raised = IF l.pending = "raise" THEN l.exc ELSE None],
                "unlink")]
    /\ UNCHANGED <<namePool, faults, clip, http, ext, ffprobe, client>>

\* ---------------------------------------------------- extract_video_url
\* A format of the info dict: its url, its "vcodec" ("absent": no such key)
\* and its "height" (no such key, None, or an integer).
Format(url, vcodec, height) == [url |-> url, vcodec |-> vcodec, height |-> height]
AbsentHeight == [t |-> "absent", v |-> 0]
NullHeight == [t |-> "null", v |-> 0]
IntHeight(v) == [t |-> "int", v |-> v]

\* info["formats"]: no such key, None, or a list.
AbsentFormats == [t |-> "absent", v |-> <<>>]
NullFormats == [t |-> "null", v |-> <<>>]
ListFormats(fmts) == [t |-> "list", v |-> fmts]

\* What ydl.extract_info answers: it raises, it returns nothing (None or an
\* empty dict), or it returns an info dict with "url" (None: no such key or
\* None) and "formats".
ExtractorRaises == [kind |-> "raise", url |-> None, formats |-> AbsentFormats]
NoInfo == [kind |-> "none", url |-> None, formats |-> AbsentFormats]
Info(url, formats) == [kind |-> "info", url |-> url, formats |-> formats]

ExtractFailed == "Failed to extract video URL: "

\* f.get("height", 0)
HeightKey(f) == IF f.height.t = "absent" THEN IntHeight(0) ELSE f.height

\* [f for f in formats if f.get("vcodec") != "none"]
VideoFormats(fmts) == SelectSeq(fmts, LAMBDA f : f.vcodec # "none")

\* max(video_formats, key=...): the first format with the greatest key;
\* comparing a key that is None raises TypeError.  best is the greatest of
\* the formats before position i.
RECURSIVE MaxFrom(_, _, _)
MaxFrom(fmts, i, best) ==
    IF i > Len(fmts) THEN [ok |-> TRUE, f |-> best]
    ELSE IF HeightKey(fmts[i]).t = "null" \/ HeightKey(best).t = "null"
    THEN [ok |-> FALSE, f |-> best]
    ELSE MaxFrom(fmts, i + 1,
                 IF HeightKey(fmts[i]).v > HeightKey(best).v THEN fmts[i] ELSE best)

BestFormat(fmts) == MaxFrom(fmts, 2, fmts[1])

Returned(value) == [result |-> Some(value), raised |-> None]
Failed(prefix, msg) == [result |-> None, raised |-> Some(Exc("ValueError", <<prefix>> \o msg))]

\* extract_video_url(post_url) for the extractor's answer.
ExtractVideoUrl(answer) ==
    IF answer.kind = "raise"
    THEN Failed(ExtractFailed, <<"DownloadError: Unsupported URL">>)
    ELSE IF answer.kind = "none"
    THEN Failed(ExtractFailed, <<"Could not extract video information">>)
    ELSE IF ~IsNone(answer.url) /\ Get(answer.url) # ""
    THEN Returned(Get(answer.url))
    ELSE IF answer.formats.t = "absent"
    THEN Failed(ExtractFailed, <<"No video URL found in extracted information">>)
    ELSE LET fmts == answer.formats.v
             video_formats == VideoFormats(fmts)
         IN  IF video_formats # <<>>
             THEN IF BestFormat(video_formats).ok
                  THEN Returned(BestFormat(video_formats).f.url)
                  ELSE Failed(ExtractFailed, <<"TypeError: '>' not supported">>)
             ELSE IF answer.formats.t = "null"
             THEN Failed(ExtractFailed, <<"TypeError: 'NoneType' object is not subscriptable">>)
             ELSE IF fmts = <<>>
             THEN Failed(ExtractFailed, <<"IndexError: list index out of range">>)
             ELSE Returned(fmts[1].url)

\* No call of extract_video_url under way.
ExtIdle == [pc |-> "off", answer |-> NoInfo, result |-> None, raised |-> None]

\* One call of extract_video_url: the extractor answers and the function
\* returns or raises.
ExtractInfo ==
    /\ ext.pc = "start"
    /\ ext' = [ext EXCEPT !.pc = "done",
                          !.result = ExtractVideoUrl(ext.answer).result,
                          !.raised = ExtractVideoUrl(ext.answer).raised]
    /\ UNCHANGED <<call, fs, namePool, faults, clip, http, ffprobe, client>>

\* ----------------------------------------------------------- clip_video
StartNegative == "Start time cannot be negative"
EndNotAfterStart == "End time must be greater than start time"
ClipFailed == "Failed to clip video: "

\* The locals of a call clip_video(source_url, start_time, end_time) on a
\* source that holds video (None: nothing downloadable at the url).
ClipLocals(start_time, end_time, source, pc) ==
    [pc |-> pc, start_time |-> start_time, end_time |-> end_time, source |-> source,
     temp_output_path |-> None, video_bytes |-> None, exc |-> None, pending |-> "none",
     result |-> None, raised |-> None, log |-> <<>>]

\* No call of clip_video under way.
ClipIdle == ClipLocals(0, 1, None, "off")

\* not (start_time < 0)
StartTimeValid(start_time) == ~(start_time < 0)

AltEndTimeValidOrEqual(start_time, end_time) ==
    ~(end_time < start_time)
\* not (end_time <= start_time)
EndTimeValid(start_time, end_time) == ~(end_time <= start_time)

\* The two checks on the times, before anything else.
ClipValidate ==
    /\ clip.pc = "start"
    /\ clip' =
         IF ~StartTimeValid(clip.start_time)
         THEN [clip EXCEPT !.pc = "done",
                           !.raised = Some(Exc("ValueError", <<StartNegative>>))]
         ELSE IF ~EndTimeValid(clip.start_time, clip.end_time)
         THEN [clip EXCEPT !.pc = "done",
                           !.raised = Some(Exc("ValueError", <<EndNotAfterStart>>))]
         ELSE [clip EXCEPT !.pc = "mktemp"]
    /\ UNCHANGED <<call, fs, namePool, faults, http, ext, ffprobe, client>>

\* temp_output_path = tempfile.mktemp(suffix=".mp4"), before the try block
ClipMkTemp ==
    /\ clip.pc = "mktemp"
    /\ \/ \E n \in namePool :
            /\ ~fs[<<n, ".mp4">>].exists
            /\ clip' = [clip EXCEPT !.pc = "download",
                                    !.temp_output_path = Some(<<n, ".mp4">>),
                                    !.log = Append(@, "mktemp")]
       \/ /\ namePool = {}
          /\ clip' = [clip EXCEPT !.pc = "done", !.raised = Some(NoTempDir)]
    /\ UNCHANGED <<call, fs, namePool, faults, http, ext, ffprobe, client>>

\* with yt_dlp.YoutubeDL(ydl_opts) as ydl: ydl.download([source_url]).  The
\* download writes the clip to outtmpl, or raises with nothing or with a
\* partial file there, or ends without a file under that name.
ClipDownload ==
    LET p == Get(clip.temp_output_path)
        err == <<"DownloadError: unable to download video data">>
        whole == [exists |-> TRUE, video |-> clip.source, frames |-> <<>>, closed |-> TRUE]
        partial == [exists |-> TRUE, video |-> None, frames |-> <<>>, closed |-> TRUE]
        failed == [clip EXCEPT !.pc = "except", !.exc = Some(Exc("DownloadError", err)),
                               !.log = Append(@, "download")]
    IN
    /\ clip.pc = "download"
    /\ \/ /\ ~IsNone(clip.source)
          /\ fs' = [fs EXCEPT ![p] = whole]
          /\ clip' = [clip EXCEPT !.pc = "read", !.log = Append(@, "download")]
       \/ /\ faults \/ IsNone(clip.source)
          /\ fs' = fs
          /\ clip' = failed
       \/ /\ faults
          /\ fs' = [fs EXCEPT ![p] = partial]
          /\ clip' = failed
       \/ /\ faults
          /\ fs' = fs
          /\ clip' = [clip EXCEPT !.pc = "read", !.log = Append(@, "download")]
    /\ UNCHANGED <<call, namePool, faults, http, ext, ffprobe, client>>

\* with open(temp_output_path, "rb") as f: video_bytes = f.read(); return
ClipRead ==
    LET p == Get(clip.temp_output_path)
        err == <<"[Errno 2] No such file or directory: ", "<temp_output_path>">>
    IN
    /\ clip.pc = "read"
    /\ \/ /\ fs[p].exists
          /\ clip' = [clip EXCEPT !.pc = "cleanup", !.pending = "return",
                                  !.video_bytes = fs[p].video,
                                  !.log = Append(@, "open_rb")]
       \/ /\ ~fs[p].exists
          /\ clip' = [clip EXCEPT !.pc = "except",
                                  !.exc = Some(Exc("FileNotFoundError", err)),
                                  !.log = Append(@, "open_rb")]
    /\ UNCHANGED <<call, fs, namePool, faults, http, ext, ffprobe, client>>

\* except Exception as e: raise ValueError(f"Failed to clip video: {str(e)}")
ClipExcept ==
    /\ clip.pc = "except"
    /\ clip' = [clip EXCEPT !.pc = "cleanup", !.pending = "raise",
                            !.exc = Some(Exc("ValueError", <<ClipFailed>> \o Get(clip.exc).msg))]
    /\ UNCHANGED <<call, fs, namePool, faults, http, ext, ffprobe, client>>

\* finally: if os.path.exists(temp_output_path): os.unlink(temp_output_path)
ClipCleanup ==
    LET p == Get(clip.temp_output_path) IN
    /\ clip.pc = "cleanup"
    /\ fs' = [fs EXCEPT ![p] = Unlinked(@)]
    /\ clip' = [clip EXCEPT !.pc = "done",
                            !.result = IF clip.pending = "return" THEN clip.video_bytes
                                       ELSE None,
                            !.raised = IF clip.pending = "raise" THEN clip.exc ELSE None,
                            !.log = Append(@, "unlink")]
    /\ UNCHANGED <<call, namePool, faults, http, ext, ffprobe, client>>

ClipVideo ==
    \/ ClipValidate \/ ClipMkTemp \/ ClipDownload \/ ClipRead \/ ClipExcept \/ ClipCleanup

\* ------------------------------------------------------ routes/video.py
RouteMinFps == 3
RouteMaxFps == 10
RouteMinQuality == 0
RouteMaxQuality == 100

Endpoints == {"extract-url", "clip", "from-url", "from-file"}

\* A request: the endpoint, the query parameters (url_ok: the url parses as
\* an HttpUrl), what the url leads to (source, answer), the uploaded file,
\* and the environment of the server: "debug" (DEBUG set), "development"
\* (ENVIRONMENT == "development") or "none".
Request(endpoint, env, url_ok, start_time, end_time, args, source, upload, answer) ==
    [pc |-> "received", endpoint |-> endpoint, env |-> env, url_ok |-> url_ok,
     start_time |-> start_time, end_time |-> end_time, args |-> args,
     source |-> source, upload |-> upload, answer |-> answer,
     caught |-> None, response |-> None]

\* No request under way.
HttpIdle ==
    [Request("clip", "none", TRUE, 0, 1, IdleArgs, None, None, NoInfo) EXCEPT !.pc = "off"]

\* The Literal types of resize, speed and loop.
LiteralsValid(args) ==
    /\ args.resize \in ResizeValues /\ args.speed \in SpeedValues
    /\ args.loop \in LoopValues

AltBoundaryValidChecksOptions(r) ==
    CASE r.endpoint = "extract-url" -> r.url_ok
      [] r.endpoint = "clip" -> r.url_ok /\ r.start_time >= 0 /\ r.end_time > 0
      [] OTHER ->
           /\ r.endpoint = "from-file" => ~IsNone(r.upload)
           /\ r.url_ok /\ LiteralsValid(r.args)
           /\ r.args.fps >= RouteMinFps /\ r.args.fps <= RouteMaxFps
           /\ r.args.quality >= RouteMinQuality /\ r.args.quality <= RouteMaxQuality

\* What FastAPI checks before it calls the handler: the declared types, and
\* the ge/gt/le bounds of the Query parameters.
BoundaryValid(r) ==
    CASE r.endpoint = "extract-url" -> r.url_ok
      [] r.endpoint = "clip" -> r.url_ok /\ r.start_time >= 0 /\ r.end_time > 0
      [] r.endpoint = "from-url" -> r.url_ok /\ LiteralsValid(r.args)
      [] OTHER ->
           /\ ~IsNone(r.upload) /\ LiteralsValid(r.args)
           /\ r.args.fps >= RouteMinFps /\ r.args.fps <= RouteMaxFps
           /\ r.args.quality >= RouteMinQuality /\ r.args.quality <= RouteMaxQuality

Response(status, detail, body) == [status |-> status, detail |-> detail, body |-> body]

\* if os.getenv("DEBUG") or os.getenv("ENVIRONMENT") == "development":
\*     error_detail = f"{error_detail}\n\nTraceback:\n{traceback.format_exc()}"
WithTraceback(detail, env) ==
    IF env \in {"debug", "development"} THEN detail \o <<"Traceback: ", "<traceback>">>
    ELSE detail

AltErrorResponseByEnvironment(exc, env) ==
    IF exc.type = "ValueError" /\ env # "development"
    THEN Response(400, WithTraceback(exc.msg, env), None)
    ELSE Response(500, WithTraceback(<<"Internal server error: ">> \o exc.msg, env), None)
AltErrorResponseAlways500(exc, env) ==
    Response(500, WithTraceback(<<"Internal server error: ">> \o exc.msg, env), None)
\* except ValueError as e: ... 400;  except Exception as e: ... 500
ErrorResponse(exc, env) ==
    IF exc.type = "ValueError"
    THEN Response(400, WithTraceback(exc.msg, env), None)
    ELSE Response(500, WithTraceback(<<"Internal server error: ">> \o exc.msg, env), None)

\* The response of a handler to the outcome (result or raised) of the
\* core operation it called.
Responded(r, result, raised) ==
    [r EXCEPT !.pc = "responded", !.caught = raised,
              !.response = Some(IF IsNone(raised) THEN Response(200, <<>>, result)
                                ELSE ErrorResponse(Get(raised), r.env))]

\* FastAPI validates the request: 422 without calling the handler, or the
\* handler starts.
Boundary ==
    /\ http.pc = "received"
    /\ http' = IF BoundaryValid(http) THEN [http EXCEPT !.pc = "handler"]
               ELSE [http EXCEPT !.pc = "responded",
                                 !.response = Some(Response(422, <<"validation error">>, None))]
    /\ UNCHANGED <<call, fs, namePool, faults, clip, ext, ffprobe, client>>

\* video_url = video.extract_video_url(str(url))
CallExtract ==
    /\ http.pc = "handler" /\ http.endpoint = "extract-url"
    /\ http' = [http EXCEPT !.pc = "await_extract"]
    /\ ext' = [ExtIdle EXCEPT !.pc = "start", !.answer = http.answer]
    /\ UNCHANGED <<call, fs, namePool, faults, clip, ffprobe, client>>

\* return {"video_url": video_url}, or one of the except clauses
ExtractReturned ==
    /\ http.pc = "await_extract" /\ ext.pc = "done"
    /\ http' = Responded(http, ext.result, ext.raised)
    /\ UNCHANGED <<call, fs, namePool, faults, clip, ext, ffprobe, client>>

\* video_bytes = video.clip_video(str(url), start_time, end_time), in the
\* clip endpoint and in the from-url endpoint
CallClip ==
    /\ http.pc = "handler" /\ http.endpoint \in {"clip", "from-url"}
    /\ http' = [http EXCEPT !.pc = "await_clip"]
    /\ clip' = ClipLocals(http.start_time, http.end_time, http.source, "start")
    /\ UNCHANGED <<call, fs, namePool, faults, ext, ffprobe, client>>

\* The locals of the call gif.from_video(video_bytes=..., resize=..., ...)
\* of a handler.
Invoked(r, video_bytes) ==
    [InitLocals(r.args, video_bytes, "start") EXCEPT !.debug = (r.env = "debug")]

\* clip_video has exited: the clip endpoint responds; the from-url endpoint
\* responds to an error and otherwise calls gif.from_video.
ClipReturned ==
    /\ http.pc = "await_clip" /\ clip.pc = "done"
    /\ IF http.endpoint = "clip" \/ ~IsNone(clip.raised)
       THEN /\ http' = Responded(http, clip.result, clip.raised)
            /\ call' = call
       ELSE /\ http' = [http EXCEPT !.pc = "await_gif"]
            /\ call' = [call EXCEPT ![1] = Invoked(http, Get(clip.result))]
    /\ UNCHANGED <<fs, namePool, faults, clip, ext, ffprobe, client>>

\* video_bytes = await video.read(), then gif.from_video(...)
ReadUpload ==
    /\ http.pc = "handler" /\ http.endpoint = "from-file"
    /\ \/ /\ http' = [http EXCEPT !.pc = "await_gif"]
          /\ call' = [call EXCEPT ![1] = Invoked(http, Get(http.upload))]
       \/ /\ faults
          /\ http' = Responded(http, None,
                                Some(Exc("OSError", <<"cannot read the uploaded file">>)))
          /\ call' = call
    /\ UNCHANGED <<fs, namePool, faults, clip, ext, ffprobe, client>>

\* gif.from_video has exited: Response(content=gif_bytes, ...) or one of
\* the except clauses
GifReturned ==
    /\ http.pc = "await_gif" /\ call[1].pc = "done"
    /\ http' = Responded(http, call[1].result, call[1].raised)
    /\ UNCHANGED <<call, fs, namePool, faults, clip, ext, ffprobe, client>>

Handle ==
    \/ Boundary \/ CallExtract \/ ExtractReturned \/ CallClip \/ ClipReturned
    \/ ReadUpload \/ GifReturned

\* ------------------------------------------- client.py and the routes
\* A url path is the sequence of its segments: "/" is << >>.
ClientMethods ==
    {"health_check", "get_api_info", "extract_video_url", "clip_video", "url_to_gif",
     "make_gif_from_file"}

\* self.client.get(...) in every method but make_gif_from_file, which posts
ClientVerb(method) == IF method = "make_gif_from_file" THEN "POST" ELSE "GET"

\* The endpoint each method hands to self._url
ClientEndpoint(method) ==
    CASE method = "health_check" -> <<"health">>
      [] method = "get_api_info" -> << >>
      [] method = "extract_video_url" -> <<"api", "video", "extract-url">>
      [] method = "clip_video" -> <<"api", "video", "clip">>
      [] method = "url_to_gif" -> <<"api", "video", "url-to-gif">>
      [] method = "make_gif_from_file" -> <<"api", "video", "make-gif">>

\* The path of config.base_url, "http://localhost:8000", after rstrip('/')
BasePath == << >>

\* urljoin(self.base_url + '/', endpoint.lstrip('/'))
Url(base_path, endpoint) == base_path \o endpoint

\* APIRouter(prefix="/api/video")
RouterPrefix == <<"api", "video">>

Route(verb, path, endpoint) == [verb |-> verb, path |-> path, endpoint |-> endpoint]

\* The routes create_app registers: those of video.router and its own two.
ServerRoutes ==
    { Route("GET", RouterPrefix \o <<"extract-url">>, "extract-url"),
      Route("GET", RouterPrefix \o <<"clip">>, "clip"),
      Route("GET", RouterPrefix \o <<"to-gif", "from-url">>, "from-url"),
      Route("POST", RouterPrefix \o <<"to-gif", "from-file">>, "from-file"),
      Route("GET", << >>, "root"),
      Route("GET", <<"health">>, "health") }

\* The method builds its request.
ClientSend ==
    /\ client.pc = "start"
    /\ client' = [client EXCEPT !.pc = "sent", !.verb = ClientVerb(client.method),
                                !.path = Url(BasePath, ClientEndpoint(client.method))]
    /\ UNCHANGED <<call, fs, namePool, faults, clip, http, ext, ffprobe>>

\* The server routes the request: 404 when no route has the path, 405 when
\* routes have the path but none the method; the two routes of app.py answer
\* at once, the routes of the video router start their endpoint.
Dispatch ==
    LET same_path == {r \in ServerRoutes : r.path = client.path}
        matching == {r \in same_path : r.verb = client.verb}
        target == CHOOSE r \in matching : TRUE
    IN
    /\ client.pc = "sent"
    /\ IF same_path = {}
       THEN client' = [client EXCEPT !.pc = "done", !.status = 404] /\ http' = http
       ELSE IF matching = {}
       THEN client' = [client EXCEPT !.pc = "done", !.status = 405] /\ http' = http
       ELSE IF target.endpoint \in {"root", "health"}
       THEN client' = [client EXCEPT !.pc = "done", !.status = 200] /\ http' = http
       ELSE /\ client' = [client EXCEPT !.pc = "awaiting"]
            /\ \E env \in {"none", "debug", "development"} :
                 http' = Request(target.endpoint, env, client.url_ok, client.start_time,
                                 client.end_time, client.args, client.source, client.upload,
                                 IF IsNone(client.source) THEN NoInfo
                                 ELSE Info(Some("direct"), AbsentFormats))
    /\ UNCHANGED <<call, fs, namePool, faults, clip, ext, ffprobe>>

\* response.raise_for_status(): the method sees the status of the response.
ClientReceive ==
    /\ client.pc = "awaiting" /\ http.pc = "responded"
    /\ client' = [client EXCEPT !.pc = "done", !.status = Get(http.response).status]
    /\ UNCHANGED <<call, fs, namePool, faults, clip, http, ext, ffprobe>>

\* ------------------------------------------------------- specifications
FromVideo(c) ==
    \/ Validate(c) \/ MkTempVideo(c) \/ MkTempGif(c) \/ WriteScratch(c)
    \/ ReadMeta(c) \/ MetaFallback(c)
    \/ ProbeMissing(c) \/ ProbeInvalid(c) \/ ComputeSize(c)
    \/ DecodeFrame(c) \/ DecodeEnd(c) \/ DecodeFail(c)
    \/ OpenWriter(c) \/ WriteFrame(c) \/ CloseWriter(c) \/ ReadGif(c)
    \/ Except(c) \/ CleanupVideo(c) \/ CleanupGif(c)

Next == \E c \in Calls : FromVideo(c)

\* fps and quality are read by the two range checks only, and quality by
\* nothing else: every fps at the default quality, and every quality around
\* its limits at the default fps.
FpsInputs == (MinFps - 1) .. (MaxFps + 1)
QualityInputs == {MinQuality - 1, MinQuality, MaxQuality, MaxQuality + 1}
FpsQuality ==
    { <<f, 75>> : f \in FpsInputs } \cup { <<8, q>> : q \in QualityInputs }

AllArgs ==
    { Args(fq[1], fq[2], r, s, lp) : fq \in FpsQuality,
                                     r \in ResizeValues, s \in SpeedValues, lp \in LoopValues }

ShortVideos ==
    { Video(720, 480, Rat(30, 1), n) : n \in 0 .. MaxShortLen }
    \cup { Video(3, 2, Rat(24, 1), n) : n \in 0 .. MaxShortLen }

\* The state before any call has run, for call 1 with arguments a on video v.
InitOne(a, v, f) ==
    /\ call = [c \in Calls |-> IF c = 1 THEN InitLocals(a, v, "start")
                               ELSE InitLocals(IdleArgs, IdleVideo, "off")]
    /\ fs = [p \in Paths |-> NoFile]
    /\ namePool = {"tmpA"}
    /\ faults = f
    /\ clip = ClipIdle /\ http = HttpIdle /\ ext = ExtIdle
    /\ ffprobe = ProbeIdle /\ client = ClientIdle

\* One call of from_video, every option combination, short videos,
\* collaborators that may fail.
Init == \E a \in AllArgs, v \in ShortVideos : InitOne(a, v, TRUE)

Spec == Init /\ [][Next]_vars

\* Long videos around the frame limit with collaborators that do not fail,
\* one short video with collaborators that may, and a video of 3 x 3 pixels
\* at every resize.
LongArgs ==
    { Args(8, 75, "50%", "1x", "forever"),
      Args(10, 75, "100%", "0.5x", "once"),
      Args(3, 75, "75%", "4x", "none") }
LongVideos ==
    { Video(720, 480, Rat(30, 1), n) :
        n \in {300, FrameLimit - 1, FrameLimit, FrameLimit + 1, FrameLimit + 2} }
FaultArgs ==
    { Args(8, 75, "50%", "1x", "forever"), Args(11, 75, "100%", "1x", "none") }
TinyVideo == Video(3, 3, Rat(30, 1), 2)

InitLong ==
    \/ \E a \in LongArgs, v \in LongVideos : InitOne(a, v, FALSE)
    \/ \E a \in FaultArgs, n \in 0 .. MaxShortLen :
         InitOne(a, Video(720, 480, Rat(30, 1), n), TRUE)
    \/ \E r \in ResizeValues : InitOne(Args(8, 75, r, "1x", "forever"), TinyVideo, TRUE)

SpecLong == InitLong /\ [][Next]_vars

\* Two calls of from_video running at the same time on one scratch
\* directory; tempfile.mktemp draws each name from the names that do not
\* exist at that moment.
ConcArgs ==
    { Args(8, 75, "50%", "1x", "forever"), Args(10, 75, "100%", "0.5x", "once") }

InitTwo(a1, v1, a2, v2, f) ==
    /\ call = [c \in Calls |-> IF c = 1 THEN InitLocals(a1, v1, "start")
                               ELSE InitLocals(a2, v2, "start")]
    /\ fs = [p \in Paths |-> NoFile]
    /\ namePool = Names
    /\ faults = f
    /\ clip = ClipIdle /\ http = HttpIdle /\ ext = ExtIdle
    /\ ffprobe = ProbeIdle /\ client = ClientIdle

\* Collaborators that do not fail under two calls that both convert, and
\* collaborators that may fail under one call that converts beside one that
\* fails validation.
InitConc ==
    \/ \E a1 \in ConcArgs, a2 \in ConcArgs :
         InitTwo(a1, Video(720, 480, Rat(30, 1), 2), a2, Video(3, 2, Rat(24, 1), 1), FALSE)
    \/ InitTwo(Args(8, 75, "50%", "1x", "forever"), Video(720, 480, Rat(30, 1), 1),
               Args(11, 75, "100%", "1x", "none"), Video(3, 2, Rat(24, 1), 1), TRUE)

SpecConc == InitConc /\ [][Next]_vars

\* A caller invokes from_video again once its previous call has exited.
Begin(c) ==
    /\ call[c].pc = "off"
    /\ \A o \in Calls \ {c} : call[o].pc = "done"
    /\ call' = [call EXCEPT ![c].pc = "start"]
    /\ UNCHANGED <<fs, namePool, faults, clip, http, ext, ffprobe, client>>

NextTwice == Next \/ \E c \in Calls : Begin(c)

\* Two calls, one after the other, with the same video bytes and options;
\* DEBUG set during the first, the second, or neither.
TwiceArgs ==
    { Args(8, 75, "50%", "1x", "forever"), Args(10, 75, "100%", "0.5x", "once"),
      Args(3, 75, "25%", "4x", "none") }
TwiceVideos == { Video(720, 480, Rat(30, 1), 2), Video(3, 2, Rat(24, 1), MaxShortLen) }
DebugPairs == { <<TRUE, FALSE>>, <<FALSE, TRUE>>, <<FALSE, FALSE>> }

InitTwice ==
    \E a \in TwiceArgs, v \in TwiceVideos, d \in DebugPairs :
      /\ call = [c \in Calls |->
                   [InitLocals(a, v, IF c = 1 THEN "start" ELSE "off")
                      EXCEPT !.debug = d[c]]]
      /\ fs = [p \in Paths |-> NoFile]
      /\ namePool = {"tmpA"}
      /\ faults = TRUE
      /\ clip = ClipIdle /\ http = HttpIdle /\ ext = ExtIdle
      /\ ffprobe = ProbeIdle /\ client = ClientIdle

SpecTwice == InitTwice /\ [][NextTwice]_vars

IdleCalls == [c \in Calls |-> InitLocals(IdleArgs, IdleVideo, "off")]

\* One call of extract_video_url for every answer of the extractor with at
\* most MaxFormats formats; the url of a format names its position.
MaxFormats == 2
FormatUrl(i) == IF i = 1 THEN "u1" ELSE IF i = 2 THEN "u2" ELSE "u3"
FormatsAt(i) ==
    { Format(FormatUrl(i), vc, h) :
        vc \in {"none", "h264", "absent"},
        h \in {AbsentHeight, NullHeight, IntHeight(360), IntHeight(720)} }
FormatLists ==
    UNION { { fmts \in [1 .. n -> UNION {FormatsAt(i) : i \in 1 .. MaxFormats}] :
                \A i \in 1 .. n : fmts[i] \in FormatsAt(i) } : n \in 0 .. MaxFormats }
ExtractorAnswers ==
    {ExtractorRaises, NoInfo}
    \cup { Info(u, f) : u \in {None, Some(""), Some("direct")},
                        f \in {AbsentFormats, NullFormats}
                              \cup {ListFormats(fmts) : fmts \in FormatLists} }

InitExtract ==
    \E a \in ExtractorAnswers :
      /\ ext = [ExtIdle EXCEPT !.pc = "start", !.answer = a]
      /\ ffprobe = ProbeIdle /\ client = ClientIdle
      /\ call = IdleCalls /\ fs = [p \in Paths |-> NoFile] /\ namePool = {"tmpA"}
      /\ faults = FALSE /\ clip = ClipIdle /\ http = HttpIdle

SpecExtract == InitExtract /\ [][ExtractInfo]_vars

\* One call of clip_video for times around the two checks, on a url with a
\* video behind it or with none.
ClipTimes == (0 - 1) .. 2
ClipSources == {None, Some(Video(720, 480, Rat(30, 1), 2))}

InitClip ==
    \E s \in ClipTimes, e \in ClipTimes, src \in ClipSources, f \in BOOLEAN :
      /\ clip = ClipLocals(s, e, src, "start")
      /\ call = IdleCalls /\ fs = [p \in Paths |-> NoFile] /\ namePool = {"tmpA"}
      /\ faults = f /\ ext = ExtIdle /\ http = HttpIdle
      /\ ffprobe = ProbeIdle /\ client = ClientIdle

SpecClip == InitClip /\ [][ClipVideo]_vars

\* One call of _get_video_metadata_ffprobe on each outcome of the
\* subprocess: every way it can fail, and every stream it can describe with
\* a width and a height that are absent, negative, zero or positive and a
\* rate that is absent, rational (zero denominators included) or decimal.
ProbeDims == {None, Some(0 - 1), Some(0), Some(1), Some(720)}
ProbeRates ==
    {None}
    \cup { Some(RateStr("rational", n, d)) : n \in {0, 24, 30000}, d \in {0, 1, 1001} }
    \cup { Some(RateStr("decimal", 25, 1)), Some(RateStr("decimal", 2997, 100)) }
ProbeOutcomes ==
    { ProbeRun("ok", Stream(w, h, r)) : w \in ProbeDims, h \in ProbeDims, r \in ProbeRates }
    \cup { ProbeRun(k, NoStream) :
             k \in {"notinstalled", "filenotfound", "timeout", "nonzero", "badjson",
                    "nostreams", "oserror"} }

\* The call returns or raises what FfprobeMetadata computes for the run.
GetVideoMetadataFfprobe ==
    /\ ffprobe.pc = "start"
    /\ ffprobe' = [ffprobe EXCEPT !.pc = "done", !.result = Some(FfprobeMetadata(ffprobe.run))]
    /\ UNCHANGED <<call, fs, namePool, faults, clip, http, ext, client>>

InitProbe ==
    \E run \in ProbeOutcomes :
      /\ ffprobe = [ProbeIdle EXCEPT !.pc = "start", !.run = run]
      /\ call = IdleCalls /\ fs = [p \in Paths |-> NoFile] /\ namePool = {"tmpA"}
      /\ faults = TRUE /\ clip = ClipIdle /\ http = HttpIdle /\ ext = ExtIdle
      /\ client = ClientIdle

SpecProbe == InitProbe /\ [][GetVideoMetadataFfprobe]_vars

\* One request to each endpoint.
Envs == {"none", "debug", "development"}
HttpArgs ==
    { Args(fq[1], fq[2], "50%", "1x", "forever") :
        fq \in {<<8, 75>>, <<2, 75>>, <<11, 75>>, <<8, 0 - 1>>, <<8, 101>>} }
    \cup { Args(8, 75, "33%", "1x", "forever") }
HttpTimes == { <<0 - 1, 1>>, <<0, 0>>, <<0, 1>>, <<1, 1>>, <<1, 2>> }
HttpAnswers ==
    { ExtractorRaises, NoInfo, Info(Some("direct"), AbsentFormats), Info(None, AbsentFormats),
      Info(None, ListFormats(<<Format("u1", "h264", IntHeight(720))>>)) }

InitHttp ==
    /\ \E env \in Envs :
         \/ \E ok \in BOOLEAN, a \in HttpAnswers :
              http = Request("extract-url", env, ok, 0, 1, IdleArgs, None, None, a)
         \/ \E ok \in BOOLEAN, t \in HttpTimes, src \in ClipSources :
              http = Request("clip", env, ok, t[1], t[2], IdleArgs, src, None, NoInfo)
         \/ \E t \in HttpTimes, a \in HttpArgs, src \in ClipSources :
              http = Request("from-url", env, TRUE, t[1], t[2], a, src, None, NoInfo)
         \/ \E a \in HttpArgs, up \in ClipSources :
              http = Request("from-file", env, TRUE, 0, 1, a, None, up, NoInfo)
    /\ call = IdleCalls /\ fs = [p \in Paths |-> NoFile] /\ namePool = {"tmpA"}
    /\ faults = TRUE /\ clip = ClipIdle /\ ext = ExtIdle
    /\ ffprobe = ProbeIdle /\ client = ClientIdle

NextHttp == Handle \/ ClipVideo \/ ExtractInfo \/ FromVideo(1)

SpecHttp == InitHttp /\ [][NextHttp]_vars

\* One request to each endpoint that needs a scratch file, on a host where
\* tempfile finds no usable temporary directory.
InitNoTmp ==
    /\ \E env \in Envs :
         \/ \E ok \in BOOLEAN, t \in HttpTimes, src \in ClipSources :
              http = Request("clip", env, ok, t[1], t[2], IdleArgs, src, None, NoInfo)
         \/ \E t \in HttpTimes, a \in HttpArgs, src \in ClipSources :
              http = Request("from-url", env, TRUE, t[1], t[2], a, src, None, NoInfo)
         \/ \E a \in HttpArgs, up \in ClipSources :
              http = Request("from-file", env, TRUE, 0, 1, a, None, up, NoInfo)
    /\ call = IdleCalls /\ fs = [p \in Paths |-> NoFile] /\ namePool = {}
    /\ faults = TRUE /\ clip = ClipIdle /\ ext = ExtIdle
    /\ ffprobe = ProbeIdle /\ client = ClientIdle

NextNoTmp ==
    \/ Boundary \/ CallClip \/ ClipValidate \/ ClipMkTemp \/ ClipReturned
    \/ ReadUpload \/ Validate(1) \/ MkTempVideo(1) \/ GifReturned

SpecNoTmp == InitNoTmp /\ [][NextNoTmp]_vars

\* One call of each method of VideoServicesClient against the application.
InitClient ==
    /\ \/ \E m \in {"health_check", "get_api_info"} :
            client = [ClientIdle EXCEPT !.pc = "start", !.method = m]
       \/ \E ok \in BOOLEAN, src \in ClipSources :
            client = [ClientIdle EXCEPT !.pc = "start", !.method = "extract_video_url",
                                        !.url_ok = ok, !.source = src]
       \/ \E ok \in BOOLEAN, t \in HttpTimes, src \in ClipSources :
            client = [ClientIdle EXCEPT !.pc = "start", !.method = "clip_video",
                                        !.url_ok = ok, !.start_time = t[1],
                                        !.end_time = t[2], !.source = src]
       \/ \E t \in HttpTimes, a \in HttpArgs, src \in ClipSources :
            client = [ClientIdle EXCEPT !.pc = "start", !.method = "url_to_gif",
                                        !.start_time = t[1], !.end_time = t[2],
                                        !.args = a, !.source = src]
       \/ \E a \in HttpArgs, up \in ClipSources :
            client = [ClientIdle EXCEPT !.pc = "start", !.method = "make_gif_from_file",
                                        !.args = a, !.upload = up]
    /\ call = IdleCalls /\ fs = [p \in Paths |-> NoFile] /\ namePool = {"tmpA"}
    /\ faults = TRUE /\ clip = ClipIdle /\ http = HttpIdle /\ ext = ExtIdle
    /\ ffprobe = ProbeIdle

NextClient ==
    \/ ClientSend \/ Dispatch \/ ClientReceive
    \/ Boundary \/ CallExtract \/ ExtractReturned \/ CallClip \/ ClipReturned
    \/ ClipVideo \/ ExtractInfo

SpecClient == InitClient /\ [][NextClient]_vars

\* ------------------------------------------------------------ properties
Active(l) == l.pc \notin {"off", "start"}

InvalidOptionsRaised(l) ==
    l.raised \in { Some(Exc("ValueError", <<FpsMessage>>)),
                   Some(Exc("ValueError", <<QualityMessage>>)) }

\* C1: from_video raises the invalid-options error exactly when fps is
\* outside [3, 10] or quality is outside [0, 100]; when it does, no scratch
\* name has been allocated, no file written, no metadata source or probe
\* consulted and no frame decoded; and when validation passes it has touched
\* neither the file system nor the decoder.
C1_ValidationFailsFast ==
    \A c \in Calls :
      LET l == call[c] IN
      Active(l) =>
        /\ InvalidOptionsRaised(l)
             <=> (l.args.fps < 3 \/ l.args.fps > 10
                  \/ l.args.quality < 0 \/ l.args.quality > 100)
        /\ (InvalidOptionsRaised(l) \/ l.pc = "mktemp_video") =>
             /\ l.log = <<>>
             /\ IsNone(l.temp_video_path) /\ IsNone(l.temp_gif_path)
             /\ l.frame_index = 0 /\ l.frames = <<>>
             /\ \A p \in Paths : ~fs[p].exists
        /\ InvalidOptionsRaised(l) => l.pc = "done" /\ IsNone(l.result)

C1_Witness ==
    /\ call[1].pc = "done" /\ InvalidOptionsRaised(call[1])
    /\ call[1].args.quality = 101

\* C2: the sampling stride is max(1, floor((sourceFps / targetFps) * speed)):
\* floor, not round, and never below 1; (30, 8, 1x) gives 3, (30, 8, 2x)
\* gives 7 and (24, 10, 0.5x) gives 1.
TwiceSpeed(speed) ==
    CASE speed = "0.5x" -> 1 [] speed = "1x" -> 2 [] speed = "2x" -> 4 [] speed = "4x" -> 8

IsFloorOf(q, num, den) == q * den <= num /\ num < (q + 1) * den

Encoded(l) ==
    IF IsNone(l.temp_gif_path) THEN <<>> ELSE fs[Get(l.temp_gif_path)].frames

\* C3: among the source frames inspected (0-based indices below
\* frame_index), frame i is retained exactly when i mod frameStep = 0, the
\* retained frames keep the source order, a returned GIF holds exactly the
\* retained frames in that order; a 300-frame 30 fps source converted with
\* fps=8, speed=1x yields exactly 100 output frames.
\* (Stated as: the k-th retained frame is source frame (k - 1) * frameStep,
\* and the last retained one is the last multiple of frameStep inspected.)
C3_KeptIffMultipleOfStep ==
    \A c \in Calls :
      LET l == call[c] IN
      l.frame_step # 0 =>
        /\ \A k \in 1 .. Len(l.frames) : l.frames[k].idx = (k - 1) * l.frame_step
        /\ IF l.frame_index = 0 THEN l.frames = <<>>
           ELSE /\ (Len(l.frames) - 1) * l.frame_step < l.frame_index
                /\ l.frame_index <= Len(l.frames) * l.frame_step
        /\ ~IsNone(l.result) =>
             /\ Len(Get(l.result).frames) = Len(l.frames)
             /\ \A k \in 1 .. Len(l.frames) : Get(l.result).frames[k].frame = l.frames[k]
        /\ ( /\ ~IsNone(l.result) /\ l.video_bytes.len = 300
             /\ l.video_fps = Rat(30, 1) /\ l.args.fps = 8 /\ l.args.speed = "1x" )
             => Len(Get(l.result).frames) = 100

C3_Witness ==
    /\ call[1].pc = "done" /\ ~IsNone(call[1].result)
    /\ call[1].video_bytes.len = 300 /\ call[1].frame_step = 3
    /\ Len(Get(call[1].result).frames) = 100

\* C4: the number of frames retained and written never exceeds 1000,
\* whatever the video length and the options.
C4_AtMost1000Frames ==
    \A c \in Calls :
      /\ Len(call[c].frames) <= 1000
      /\ Len(Encoded(call[c])) <= 1000
      /\ ~IsNone(call[c].result) => Len(Get(call[c].result).frames) <= 1000

\* C5: every frame is written with the same display duration
\* floor(1000 / fps) ms (125 for 8, 100 for 10, 333 for 3), whatever the
\* speed, the resize and the position of the frame.
C5_DurationIsFloor ==
    \A c \in Calls :
      LET l == call[c]
          ok(e) == /\ IsFloorOf(e.duration, 1000, l.args.fps)
                   /\ l.args.fps = 8 => e.duration = 125
                   /\ l.args.fps = 10 => e.duration = 100
                   /\ l.args.fps = 3 => e.duration = 333
      IN
      /\ \A k \in 1 .. Len(Encoded(l)) : ok(Encoded(l)[k])
      /\ ~IsNone(l.result) =>
           \A k \in 1 .. Len(Get(l.result).frames) : ok(Get(l.result).frames[k])

C5_Witness ==
    /\ call[1].pc = "done" /\ ~IsNone(call[1].result)
    /\ call[1].args.fps = 10 /\ call[1].args.speed = "0.5x" /\ call[1].args.resize = "50%"
    /\ Len(Get(call[1].result).frames) >= 2
    /\ \A k \in 1 .. Len(Get(call[1].result).frames) :
         Get(call[1].result).frames[k].duration = 100

\* C6: the loop value handed to the encoder with every frame is 0 for
\* "forever", 1 for "once" and None for "none"; the -1 sentinel never
\* reaches the encoder.
C6_LoopArgument ==
    \A c \in Calls :
      LET l == call[c]
          ok(e) == /\ l.args.loop = "forever" => e.loop = Some(0)
                   /\ l.args.loop = "once" => e.loop = Some(1)
                   /\ l.args.loop = "none" => e.loop = None
                   /\ e.loop # Some(-1)
      IN
      /\ \A k \in 1 .. Len(Encoded(l)) : ok(Encoded(l)[k])
      /\ ~IsNone(l.result) =>
           \A k \in 1 .. Len(Get(l.result).frames) : ok(Get(l.result).frames[k])

C6_Witness ==
    /\ call[1].pc = "done" /\ ~IsNone(call[1].result)
    /\ call[1].args.loop = "none"
    /\ Len(Get(call[1].result).frames) >= 2
    /\ \A k \in 1 .. Len(Get(call[1].result).frames) :
         Get(call[1].result).frames[k].loop = None

\* C7: with resize other than 100% every retained frame went through the
\* Lanczos resize to exactly (int(source width * pct / 100), int(source
\* height * pct / 100)): 360x240 at 50% and 540x360 at 75% of 720x480; with
\* resize 100% the frames are the decoder's, unmodified.
C7_ResizeThroughLanczos ==
    \A c \in Calls :
      LET l == call[c]
          v == l.video_bytes
          pct == CASE l.args.resize = "25%" -> 25 [] l.args.resize = "50%" -> 50
                   [] l.args.resize = "75%" -> 75 [] l.args.resize = "100%" -> 100
          ok(f) ==
            IF pct # 100
            THEN /\ f.via = "lanczos"
                 /\ IsFloorOf(f.w, v.w * pct, 100) /\ IsFloorOf(f.h, v.h * pct, 100)
                 /\ (v.w = 720 /\ v.h = 480 /\ pct = 50) => (f.w = 360 /\ f.h = 240)
                 /\ (v.w = 720 /\ v.h = 480 /\ pct = 75) => (f.w = 540 /\ f.h = 360)
            ELSE f = Frame(f.idx, v.w, v.h, "decoder")
      IN
      /\ \A k \in 1 .. Len(l.frames) : ok(l.frames[k])
      /\ \A k \in 1 .. Len(Encoded(l)) : ok(Encoded(l)[k].frame)
      /\ ~IsNone(l.result) =>
           \A k \in 1 .. Len(Get(l.result).frames) : ok(Get(l.result).frames[k].frame)

C7_Witness ==
    /\ call[1].pc = "done" /\ ~IsNone(call[1].result)
    /\ call[1].args.resize = "75%" /\ call[1].video_bytes.w = 720
    /\ Len(Get(call[1].result).frames) >= 2
    /\ \A k \in 1 .. Len(Get(call[1].result).frames) :
         /\ Get(call[1].result).frames[k].frame.w = 540
         /\ Get(call[1].result).frames[k].frame.h = 360
         /\ Get(call[1].result).frames[k].frame.via = "lanczos"

InLog(l, event) == \E k \in 1 .. Len(l.log) : l.log[k] = event

DimsResolved(l) ==
    /\ l.original_width.t = "num" /\ l.original_width.v > 0
    /\ l.original_height.t = "num" /\ l.original_height.v > 0

\* C8: when every metadata source consulted raised or gave a missing or
\* invalid (zero, negative, infinite) width or height, from_video ends with
\* an error and returns no GIF bytes; frame decoding and encoding are never
\* started with unresolved dimensions.
C8_UnresolvedDimensionsFail ==
    \A c \in Calls :
      LET l == call[c] IN
      /\ ( \/ l.pc \in {"frames", "open_writer", "write", "read"}
           \/ InLog(l, "imiter") \/ InLog(l, "imopen_w") \/ ~IsNone(l.result) )
           => DimsResolved(l)
      /\ ( /\ l.pc = "done"
           /\ l.primary \in {"raised", "missing", "invalid", "nonnumeric"}
           /\ l.probe # "ok" )
           => /\ ~IsNone(l.raised) /\ IsNone(l.result)
              /\ ~InLog(l, "imiter") /\ ~InLog(l, "imopen_w")
              /\ l.frame_index = 0 /\ l.frames = <<>>

C8_Witness ==
    /\ call[1].pc = "done" /\ call[1].primary = "invalid" /\ call[1].probe = "baddims"
    /\ ~IsNone(call[1].raised) /\ IsNone(call[1].result)

\* msg holds the fragments of sub, in order and adjacent.
Contains(msg, sub) ==
    \E i \in 0 .. (Len(msg) - Len(sub)) : SubSeq(msg, i + 1, i + Len(sub)) = sub

\* A call that got past validation ends in exactly one of: the complete
\* bytes read back from the closed GIF file, or a raised exception.
CompleteOrRaised(l) ==
    \/ /\ IsNone(l.raised) /\ ~IsNone(l.result)
       /\ Get(l.result).complete /\ l.writer = "closed"
       /\ Len(Get(l.result).frames) = Len(l.frames) /\ l.frames # <<>>
    \/ /\ ~IsNone(l.raised) /\ IsNone(l.result)

ConversionFailed(l) ==
    /\ ~IsNone(l.raised) /\ Get(l.raised).type = "ValueError"
    /\ Len(Get(l.raised).msg) >= 2 /\ Head(Get(l.raised).msg) = ConvertFailed

\* C9 as claimed: every exception raised after validation leaves from_video
\* as one conversion-failed error whose message contains the original
\* cause's message; the call returns the complete GIF bytes or raises.
C9_CauseAlwaysInMessage ==
    \A c \in Calls :
      LET l == call[c] IN
      (l.pc = "done" /\ ~InvalidOptionsRaised(l)) =>
        /\ CompleteOrRaised(l)
        /\ ~IsNone(l.raised) =>
             /\ ConversionFailed(l)
             /\ Contains(Get(l.raised).msg, Get(l.cause))

\* The probe's own descriptions of a timeout and of a binary or file it
\* could not find.
ProbeDescriptions ==
    { <<"ffprobe command timed out">>,
      <<"ffprobe not found. Please install ffmpeg.">>,
      <<"Video file not found: ", "<video_path>">> }

\* C9 amended: as claimed, except that when the ffprobe fallback for missing
\* or invalid dimensions times out or cannot find its binary or file, the
\* message carries the probe's fixed description of that failure in place
\* of the text of the subprocess exception.
C9_CauseOrProbeDescription ==
    \A c \in Calls :
      LET l == call[c] IN
      (l.pc = "done" /\ ~InvalidOptionsRaised(l)) =>
        /\ CompleteOrRaised(l)
        /\ ~IsNone(l.raised) =>
             /\ ConversionFailed(l)
             /\ \/ Contains(Get(l.raised).msg, Get(l.cause))
                \/ /\ l.primary \in {"missing", "invalid"}
                   /\ l.probe \in {"timeout", "notinstalled", "filenotfound"}
                   /\ \E d \in ProbeDescriptions :
                        Get(l.raised).msg = <<ConvertFailed>> \o d

C9_Witness ==
    /\ call[1].pc = "done" /\ call[1].frame_index = 2
    /\ call[1].cause = Some(<<"imiter: cannot decode frame">>)
    /\ ~IsNone(call[1].raised)
    /\ Get(call[1].raised).msg =
         <<ConvertFailed, FramesFailed, "imiter: cannot decode frame">>

\* C10: when from_video has exited, by return, by a validation failure or
\* by a wrapped exception, neither of its scratch files exists.
C10_ScratchFilesRemoved ==
    \A c \in Calls :
      LET l == call[c] IN
      l.pc = "done" =>
        /\ ~IsNone(l.temp_video_path) => ~fs[Get(l.temp_video_path)].exists
        /\ ~IsNone(l.temp_gif_path) => ~fs[Get(l.temp_gif_path)].exists
        /\ \A p \in Paths : ~fs[p].exists

C10_Witness ==
    /\ call[1].pc = "done" /\ ~IsNone(call[1].raised)
    /\ InLog(call[1], "open_wb") /\ call[1].writer = "open" /\ call[1].nwritten = 1
    /\ ~fs[Get(call[1].temp_video_path)].exists /\ ~fs[Get(call[1].temp_gif_path)].exists

\* The scratch paths call c holds: allocated and not yet released by the
\* end of its cleanup.
PathsInUse(c) ==
    IF call[c].pc \in {"off", "start", "done"} THEN {}
    ELSE {Get(o) : o \in {q \in {call[c].temp_video_path, call[c].temp_gif_path} :
                           ~IsNone(q)}}

\* C11: the scratch paths of two concurrent calls of from_video are
\* distinct for the whole time they are in use.
C11_ScratchPathsDisjoint ==
    \A c1 \in Calls, c2 \in Calls :
      c1 # c2 => PathsInUse(c1) \cap PathsInUse(c2) = {}

\* The errors from_video raises on its own findings, after validation.
OwnFindings ==
    { <<"Invalid dimension types">>, <<"Invalid resize calculation">>,
      <<"Calculated dimensions too small">>,
      <<"No frames could be extracted from the video">> }

\* The failure a collaborator raised in call l, if any.
CollaboratorFailure(l) ==
    IF ~IsNone(l.cause) /\ Get(l.cause) \in OwnFindings THEN None ELSE l.cause

\* What the collaborators answered call l1 and call l2 is the same: the
\* metadata and the dimensions and rate the decoder and the probe reported,
\* and the failure, if any, that one of them raised.
SameAnswers(l1, l2) ==
    /\ l1.primary = l2.primary /\ l1.probe = l2.probe
    /\ l1.original_width = l2.original_width /\ l1.original_height = l2.original_height
    /\ l1.video_fps = l2.video_fps
    /\ CollaboratorFailure(l1) = CollaboratorFailure(l2) /\ l1.meta_error = l2.meta_error

SameOutcome(l1, l2) ==
    /\ l1.result = l2.result /\ l1.raised = l2.raised
    /\ l1.width = l2.width /\ l1.height = l2.height
    /\ l1.frame_step = l2.frame_step
    /\ (~IsNone(l1.result) => Len(l1.frames) = Len(l2.frames))

\* C12: with the same video bytes, options and collaborator answers, a call
\* of from_video with DEBUG set and one with it unset make the same
\* collaborator calls in the same order and end with the same bytes or the
\* same error; the flag only adds diagnostic output.
C12_DebugOnlyAddsOutput ==
    \A c1 \in Calls, c2 \in Calls :
      LET l1 == call[c1]
          l2 == call[c2]
      IN  ( /\ l1.pc = "done" /\ l2.pc = "done"
            /\ l1.debug /\ ~l2.debug
            /\ l1.args = l2.args /\ l1.video_bytes = l2.video_bytes
            /\ SameAnswers(l1, l2) )
          => /\ SameOutcome(l1, l2)
             /\ l1.log = l2.log
             /\ l2.diag = <<>>

C12_Witness ==
    /\ call[1].pc = "done" /\ call[2].pc = "done"
    /\ call[1].debug /\ ~call[2].debug
    /\ SameAnswers(call[1], call[2])
    /\ ~IsNone(call[1].result) /\ call[1].result = call[2].result
    /\ Len(call[1].diag) >= 8 /\ call[2].diag = <<>>

\* The exception the core operation called by the handler of request r
\* raised, if any.
CoreRaised(r) ==
    CASE r.endpoint = "extract-url" -> ext.raised
      [] r.endpoint = "clip" -> clip.raised
      [] r.endpoint = "from-url" -> IF ~IsNone(clip.raised) THEN clip.raised
                                    ELSE call[1].raised
      [] OTHER -> call[1].raised

\* C13: on every endpoint a ValueError of the core operation gives HTTP 400
\* whose detail carries the error's message, any other exception gives HTTP
\* 500 whose detail begins with "Internal server error", and no failure
\* gives a 2xx response.
C13_FailuresMapTo400Or500 ==
    (http.pc = "responded" /\ Get(http.response).status # 422) =>
      LET r == Get(http.response) IN
      /\ ~IsNone(CoreRaised(http)) => http.caught = CoreRaised(http)
      /\ ~IsNone(http.caught) =>
           /\ r.status \notin 200 .. 299
           /\ Get(http.caught).type = "ValueError" =>
                r.status = 400 /\ Contains(r.detail, Get(http.caught).msg)
           /\ Get(http.caught).type # "ValueError" =>
                r.status = 500 /\ Head(r.detail) = "Internal server error: "
      /\ r.status \in 200 .. 299 => IsNone(http.caught) /\ ~IsNone(r.body)

C13_Witness ==
    /\ http.pc = "responded" /\ http.endpoint = "from-url" /\ http.env = "development"
    /\ ~IsNone(call[1].raised) /\ Head(Get(call[1].raised).msg) = ConvertFailed
    /\ Get(http.response).status = 400
    /\ Contains(Get(http.response).detail, Get(call[1].raised).msg)

OptionsOutOfRange(args) ==
    \/ args.fps < 3 \/ args.fps > 10 \/ args.quality < 0 \/ args.quality > 100

\* C14: on both GIF endpoints a request with fps outside [3,10] or quality
\* outside [0,100] is rejected at the HTTP boundary: clip_video and
\* gif.from_video are never invoked for it.
C14_OptionsRejectedBeforeWork ==
    (http.endpoint \in {"from-url", "from-file"} /\ OptionsOutOfRange(http.args)) =>
      /\ clip.pc = "off" /\ clip.log = <<>>
      /\ call[1].pc = "off"

C16_ClipTimesCheckedFirst ==
    LET bad_start == clip.start_time < 0
        bad_end == clip.end_time <= clip.start_time
    IN
    /\ (clip.pc # "off" /\ (bad_start \/ bad_end)) =>
         /\ clip.pc \in {"start", "done"}
         /\ IsNone(clip.temp_output_path) /\ clip.log = <<>>
         /\ \A p \in Paths : ~fs[p].exists
    /\ (clip.pc = "done" /\ bad_start) =>
         clip.raised = Some(Exc("ValueError", <<StartNegative>>)) /\ IsNone(clip.result)
    /\ (clip.pc = "done" /\ ~bad_start /\ bad_end) =>
         clip.raised = Some(Exc("ValueError", <<EndNotAfterStart>>)) /\ IsNone(clip.result)
    /\ (clip.pc = "done" /\ ~bad_start /\ ~bad_end) =>
         \/ IsNone(clip.raised)
         \/ Head(Get(clip.raised).msg) = ClipFailed

C16_Witness ==
    /\ clip.pc = "done" /\ clip.start_time = 1 /\ clip.end_time = 1
    /\ clip.raised = Some(Exc("ValueError", <<EndNotAfterStart>>))
    /\ IsNone(clip.temp_output_path) /\ clip.log = <<>>

\* C17: extract_video_url returns the info's direct url when present;
\* otherwise the url of a format of greatest height among the formats whose
\* vcodec is not "none" (a height that is absent or unknown counting as
\* 0); otherwise the first listed format's url; and it raises ValueError
\* when the extractor raises, yields no info, or the info has neither a
\* url nor any format.
C17_ExtractSelectsUrl ==
    ext.pc = "done" =>
      LET a == ext.answer
          fmts == a.formats.v
          video_formats == VideoFormats(fmts)
          fails == /\ IsNone(ext.result) /\ ~IsNone(ext.raised)
                   /\ Get(ext.raised).type = "ValueError"
      IN  IF a.kind \in {"raise", "none"} THEN fails
          ELSE IF ~IsNone(a.url) /\ Get(a.url) # "" THEN ext.result = a.url /\ IsNone(ext.raised)
          ELSE IF fmts = <<>> THEN fails
          ELSE IF video_formats # <<>>
          THEN /\ IsNone(ext.raised)
               /\ \E i \in 1 .. Len(video_formats) :
                    /\ ext.result = Some(video_formats[i].url)
                    /\ \A j \in 1 .. Len(video_formats) :
                         HeightKey(video_formats[j]).v <= HeightKey(video_formats[i]).v
          ELSE ext.result = Some(fmts[1].url) /\ IsNone(ext.raised)

\* C18: when ffprobe was invoked and its binary is not installed, the error
\* from_video raises says so.
C18_NotInstalledIsReported ==
    \A c \in Calls :
      (call[c].pc = "done" /\ call[c].probe = "notinstalled") =>
        /\ ~IsNone(call[c].raised)
        /\ Contains(Get(call[c].raised).msg, <<"ffprobe not found. Please install ffmpeg.">>)

\* C19: two calls of from_video with the same video bytes and options, to
\* which the collaborators answer the same, end with the same result or the
\* same error, the same output dimensions and the same number of retained
\* frames; the first call leaves nothing in the scratch directory for the
\* second to find.
C19_SecondCallSameAsFirst ==
    /\ (call[1].pc = "done" /\ call[2].pc \in {"off", "start"}) =>
         fs = [p \in Paths |-> NoFile]
    /\ ( /\ call[1].pc = "done" /\ call[2].pc = "done"
         /\ call[1].args = call[2].args /\ call[1].video_bytes = call[2].video_bytes
         /\ SameAnswers(call[1], call[2]) )
       => SameOutcome(call[1], call[2])

C19_Witness ==
    /\ call[1].pc = "done" /\ call[2].pc = "done"
    /\ ~call[1].debug /\ ~call[2].debug
    /\ call[1].args = call[2].args /\ call[1].video_bytes = call[2].video_bytes
    /\ SameAnswers(call[1], call[2])
    /\ ~IsNone(call[2].result) /\ call[1].result = call[2].result
    /\ Len(call[2].frames) = 1 /\ call[2].width = 360 /\ call[2].height = 240

\* C20: the frame loop of from_video inspects at most 1000 source frames.
C20_AtMost1000Inspected ==
    \A c \in Calls : call[c].frame_index <= FrameLimit

\* C21: when the primary metadata read fails or gives missing, zero,
\* negative or infinite dimensions, the first frame is decoded and inspected
\* before the external probe is run: every run of ffprobe is preceded, in
\* the same call, by the opening of the frame decoder.
C21_FirstFrameBeforeProbe ==
    \A c \in Calls :
      LET l == call[c] IN
      \A k \in 1 .. Len(l.log) :
        l.log[k] = "ffprobe" => \E j \in 1 .. (k - 1) : l.log[j] = "imiter"

\* A width or height no conversion can use: missing, infinite, zero or
\* negative.
Unusable(d) == d.t \in {"none", "inf"} \/ (d.t = "num" /\ d.v <= 0)

FinitePositive(d) == d.t = "num" /\ d.v > 0

\* C22: ffprobe is run only if iio.immeta raised or gave a missing, zero,
\* negative or infinite width or height; when immeta gives a finite positive
\* width and height, ffprobe is never run and the conversion uses those
\* values and immeta's frame rate, or 30.0 when it reports none.
C22_ProbeOnlyIfPrimaryUnusable ==
    \A c \in Calls :
      LET l == call[c]
          d == MetaDims(Get(l.meta))
          rate == IF ~IsNone(Get(l.meta).fps) THEN Get(Get(l.meta).fps)
                  ELSE IF ~IsNone(Get(l.meta).framerate) THEN Get(Get(l.meta).framerate)
                  ELSE Rat(30, 1)
      IN
      /\ InLog(l, "ffprobe") =>
           \/ ~IsNone(l.meta_error)
           \/ ~IsNone(l.meta) /\ (Unusable(d.w) \/ Unusable(d.h))
      /\ ( /\ IsNone(l.meta_error) /\ ~IsNone(l.meta)
           /\ FinitePositive(d.w) /\ FinitePositive(d.h) )
           => /\ ~InLog(l, "ffprobe") /\ l.probe = "none"
              /\ l.original_width = d.w /\ l.original_height = d.h
              /\ l.video_fps = rate
              /\ l.frame_step # 0 =>
                   /\ IsFloorOf(l.width, d.w.v * l.resize_pct, 100)
                   /\ IsFloorOf(l.height, d.h.v * l.resize_pct, 100)
                   /\ l.frame_step = FrameStepOf(rate, l.args.fps, l.speed_factor)

C22_Witness ==
    /\ call[1].pc = "done" /\ ~IsNone(call[1].result)
    /\ call[1].video_bytes.fps = Rat(24, 1)
    /\ call[1].meta = Some(MetaDict(Some(<<Num(2), Num(3), Num(3)>>), None, None, None))
    /\ call[1].video_fps = Rat(30, 1) /\ call[1].probe = "none"
    /\ call[1].width = 3 /\ call[1].height = 2

\* The source dimensions of l scaled by its resize factor are finite and at
\* least 1, so that truncating them leaves integers > 0.
ScaledAtLeastOne(l) ==
    /\ l.original_width.t = "num" /\ l.original_height.t = "num"
    /\ l.original_width.v * l.resize_pct >= 100
    /\ l.original_height.v * l.resize_pct >= 100

\* The source dimensions of l scaled by its resize factor are finite and
\* above 1/2, so that every rounding to the nearest integer leaves
\* integers > 0.
ScaledAboveHalf(l) ==
    /\ l.original_width.t = "num" /\ l.original_height.t = "num"
    /\ 2 * l.original_width.v * l.resize_pct > 100
    /\ 2 * l.original_height.v * l.resize_pct > 100

\* C23 as claimed, with rounding to the nearest integer: the frame decoder
\* is opened only for a target size that is finite and > 0 after rounding,
\* and a call whose scaled dimensions round to integers > 0 has its target
\* size accepted.
C23_TargetSizeRounded ==
    \A c \in Calls :
      LET l == call[c] IN
      /\ InLog(l, "imiter") => 2 * l.original_width.v * l.resize_pct >= 100
      /\ (l.pc = "done" /\ ~InvalidOptionsRaised(l) /\ ScaledAboveHalf(l))
           => InLog(l, "imiter")

\* C23 amended: from_video fails with a conversion error, before decoding
\* any frame, whenever source width or height multiplied by the resize
\* factor is not finite and > 0 after truncation toward zero to an integer;
\* otherwise the target size, the truncated values, is accepted and
\* decoding starts.
C23_TargetSizeTruncated ==
    \A c \in Calls :
      LET l == call[c] IN
      /\ InLog(l, "imiter") =>
           /\ ScaledAtLeastOne(l)
           /\ IsFloorOf(l.width, l.original_width.v * l.resize_pct, 100)
           /\ IsFloorOf(l.height, l.original_height.v * l.resize_pct, 100)
           /\ l.width > 0 /\ l.height > 0
      /\ (l.pc = "done" /\ ~InvalidOptionsRaised(l)) =>
           IF ScaledAtLeastOne(l) THEN InLog(l, "imiter")
           ELSE /\ ConversionFailed(l) /\ IsNone(l.result)
                /\ ~InLog(l, "imiter") /\ l.frame_index = 0 /\ l.frames = <<>>

C23_Witness ==
    /\ call[1].pc = "done" /\ call[1].args.resize = "25%"
    /\ call[1].original_width = Num(3) /\ call[1].original_height = Num(3)
    /\ call[1].raised =
         Some(Exc("ValueError", <<ConvertFailed, "Calculated dimensions too small">>))
    /\ ~InLog(call[1], "imiter")

\* C24: when the GIF writer was opened and a writer.write of a frame
\* raised, the writer has been closed by the time from_video has exited.
C24_WriterClosedOnExit ==
    \A c \in Calls :
      LET l == call[c] IN
      (l.pc = "done" /\ l.cause = Some(<<"writer: cannot write frame">>))
        => l.writer = "closed"

ClipLogged(event) == \E k \in 1 .. Len(clip.log) : clip.log[k] = event

\* C25: when the download-and-clip step of clip_video fails, or leaves no
\* output file to read, the call raises ValueError "Failed to clip video: "
\* followed by the message of the cause, and no scratch file is left when
\* it has exited; bytes are returned only after the download ended
\* normally and the output file was read back, and they are the whole clip.
C25_ClipFailureWrappedAndCleaned ==
    clip.pc = "done" =>
      /\ \A p \in Paths : ~fs[p].exists
      /\ ~IsNone(clip.temp_output_path) =>
           /\ ClipLogged("download") /\ ClipLogged("unlink")
           /\ \/ /\ IsNone(clip.raised) /\ ~IsNone(clip.result)
                 /\ ClipLogged("open_rb")
                 /\ ~IsNone(clip.source) /\ clip.result = clip.source
              \/ /\ IsNone(clip.result) /\ ~ClipLogged("open_rb")
                 /\ clip.raised = Some(Exc("ValueError",
                      <<"Failed to clip video: ",
                        "DownloadError: unable to download video data">>))
              \/ /\ IsNone(clip.result) /\ ClipLogged("open_rb")
                 /\ clip.raised = Some(Exc("ValueError",
                      <<"Failed to clip video: ",
                        "[Errno 2] No such file or directory: ", "<temp_output_path>">>))
      /\ (IsNone(clip.source) /\ ~IsNone(clip.temp_output_path)) => ~IsNone(clip.raised)

C25_Witness ==
    /\ clip.pc = "done" /\ ~IsNone(clip.temp_output_path)
    /\ ClipLogged("download") /\ ~ClipLogged("open_rb") /\ ClipLogged("unlink")
    /\ clip.raised = Some(Exc("ValueError",
          <<ClipFailed, "DownloadError: unable to download video data">>))
    /\ ~fs[Get(clip.temp_output_path)].exists

\* C26: the probe evaluates a rate "num/den" as num/den, takes 30.0 for a
\* rate whose den is 0 and for an absent rate, and uses a plain decimal as
\* it is; it returns a width and a height, those of the stream, only when
\* the run succeeded and both are present and > 0, and raises otherwise.
C26_ProbeRateAndDims ==
    ffprobe.pc = "done" =>
      LET run == ffprobe.run
          st == run.stream
          r == Get(ffprobe.result)
          dims_ok == /\ run.kind = "ok"
                     /\ ~IsNone(st.width) /\ ~IsNone(st.height)
                     /\ Get(st.width) > 0 /\ Get(st.height) > 0
          rate == Get(st.r_frame_rate)
      IN
      /\ r.ok <=> dims_ok
      /\ ~r.ok => r.exc.type \in {"ValueError", "OSError"}
      /\ r.ok =>
           /\ r.w = Get(st.width) /\ r.h = Get(st.height)
           /\ r.fps.d > 0
           /\ IF IsNone(st.r_frame_rate) THEN r.fps = Rat(30, 1)
              ELSE IF rate.form = "rational" /\ rate.den = 0 THEN r.fps = Rat(30, 1)
              ELSE r.fps.n * rate.den = rate.num * r.fps.d

C26_Witness ==
    /\ ffprobe.pc = "done" /\ Get(ffprobe.result).ok
    /\ ffprobe.run.stream.r_frame_rate = Some(RateStr("rational", 30000, 1001))
    /\ Get(ffprobe.result).fps = Rat(30000, 1001)
    /\ Get(ffprobe.result).w = 720 /\ Get(ffprobe.result).h = 1

NoFramesMessage == "No frames could be extracted from the video"

\* C27: a call of from_video that returns has written at least one frame,
\* the first being source frame 0; the GIF writer is never opened with no
\* frame retained; as soon as the decoder has yielded a frame, frame 0 is
\* retained, whatever the stride; and a call whose decoder yielded no frame
\* and did not fail raises the conversion error "No frames could be
\* extracted from the video".
C27_AtLeastOneFrame ==
    \A c \in Calls :
      LET l == call[c] IN
      /\ ~IsNone(l.result) =>
           /\ Len(Get(l.result).frames) >= 1
           /\ Get(l.result).frames[1].frame.idx = 0
      /\ InLog(l, "imopen_w") => Len(l.frames) >= 1
      /\ l.frame_index >= 1 => (Len(l.frames) >= 1 /\ l.frames[1].idx = 0)
      /\ ( /\ l.pc = "done" /\ InLog(l, "imiter") /\ l.frame_index = 0
           /\ l.cause # Some(<<"imiter: cannot decode frame">>)
           /\ l.cause # Some(<<"PIL: cannot resize frame">>) )
           => /\ l.raised = Some(Exc("ValueError", <<ConvertFailed, NoFramesMessage>>))
              /\ IsNone(l.result) /\ ~InLog(l, "imopen_w")

C27_Witness ==
    /\ call[1].pc = "done" /\ ~IsNone(call[1].result)
    /\ call[1].frame_step = 7 /\ call[1].frame_index = 3
    /\ Len(Get(call[1].result).frames) = 1
    /\ Get(call[1].result).frames[1].frame.idx = 0

\* C28: whatever is raised inside extract_video_url, clip_video or
\* from_video leaves the function as a ValueError, and on the extract-url,
\* clip and from-url endpoints a failure of the core operation is answered
\* with 400, never with 500.
C28_CoreFailuresAreValueErrors ==
    /\ ~IsNone(ext.raised) => Get(ext.raised).type = "ValueError"
    /\ ~IsNone(clip.raised) => Get(clip.raised).type = "ValueError"
    /\ \A c \in Calls :
         ~IsNone(call[c].raised) => Get(call[c].raised).type = "ValueError"
    /\ ( /\ http.pc = "responded" /\ http.endpoint \in {"extract-url", "clip", "from-url"}
         /\ ~IsNone(CoreRaised(http)) )
         => Get(http.response).status = 400

\* C29: the status of an error response is decided by the exception the
\* handler caught alone, 400 for a ValueError and 500 for any other,
\* whatever DEBUG and ENVIRONMENT are; the detail is the ValueError's
\* message, or "Internal server error: " and the message, followed by a
\* traceback exactly when DEBUG is set or ENVIRONMENT is "development", and
\* by nothing otherwise.
C29_StatusIndependentOfEnvironment ==
    (http.pc = "responded" /\ ~IsNone(http.caught)) =>
      LET r == Get(http.response)
          e == Get(http.caught)
          plain == IF e.type = "ValueError" THEN e.msg
                   ELSE <<"Internal server error: ">> \o e.msg
      IN
      /\ r.status = IF e.type = "ValueError" THEN 400 ELSE 500
      /\ http.env = "none" => r.detail = plain
      /\ http.env \in {"debug", "development"} =>
           /\ Len(r.detail) = Len(plain) + 2
           /\ SubSeq(r.detail, 1, Len(plain)) = plain
           /\ r.detail[Len(plain) + 1] = "Traceback: "

C29_Witness ==
    /\ http.pc = "responded" /\ http.env = "none" /\ http.endpoint = "from-file"
    /\ http.caught = Some(Exc("OSError", <<"cannot read the uploaded file">>))
    /\ Get(http.response) =
         Response(500, <<"Internal server error: ", "cannot read the uploaded file">>, None)

\* C30: no call of a VideoServicesClient method is answered 404 or 405:
\* the method and path of its request are those of a registered route.
C30_ClientPathsRegistered ==
    client.pc = "done" => client.status \notin {404, 405}
====
